---- MODULE Spec2Model ----
(***************************************************************************)
(* Model of the Brikkle chatbot: the in-memory session store               *)
(* (services/chat_history_service.py), the retrieval and the index of      *)
(* services/service.py, the response generation of                         *)
(* services/chat_service.py, the chat route (routes.py) and the startup    *)
(* (app.py).                                                               *)
(*                                                                         *)
(* Time is counted in whole days: datetime.now() is the variable now, a    *)
(* non-decreasing clock that may stand still between two reads or advance. *)
(* A session id is the serial number of the uuid4() call that made it.     *)
(***************************************************************************)
EXTENDS Integers, Sequences, FiniteSets, TLC

VARIABLES
    now,        \* the value datetime.now() returns
    sessions,   \* self.sessions: session id -> session_data (a dict)
    issued,     \* the ids uuid.uuid4() has returned so far, in call order
    sent,       \* per session id, how many messages callers had stored under it
    ret,        \* the last call: its name, arguments and return value
    pc,         \* per thread, the statement of its call it executes next
    local,      \* per thread, the local values of its call
    kb,         \* the knowledge-base file data/data.txt
    disk,       \* the index directory data/faiss_vectorstore
    vectorstore,\* RAGService.vectorstore: None, or the index in memory
    boot,       \* the position of the process in its startup
    req,        \* the chat request the event loop is handling
    backend     \* the calls in flight to the embedding and text backends

storeVars == <<now, sessions, issued, sent, ret>>
threadVars == <<pc, local>>
serviceVars == <<kb, disk, vectorstore, boot, req, backend>>
vars == <<storeVars, threadVars, serviceVars>>

-----------------------------------------------------------------------------
(* Bounds of the model *)

MaxAppends  == 7      \* add_message stores at most this many messages
MaxLimit    == 2      \* largest explicit limit passed to get_session_history
MaxDays     == 1      \* largest days passed to cleanup_old_sessions
MaxChunks   == 3      \* most chunks the knowledge base is split into
MaxK        == 3      \* largest k passed to retrieve_documents
MaxDist     == 3      \* largest distance of a search hit, in halves

(* Program constants *)

max_messages_per_session == 5
session_timeout == 1              \* timedelta(hours=24), in days

\* the clock stops one day past the session timeout
MaxTime == session_timeout + 1

-----------------------------------------------------------------------------
(* Python values *)

None == <<>>                      \* Optional[T]: None, or Some(x)
Some(x) == <<x>>
EmptyDict == {}                   \* a metadata dict, as its set of keys

\* the session ids callers use: the first two ids uuid4() returns
SessionIds == {1, 2}
\* the request threads that call the store at the same time
Threads == {1, 2}
Limits == {None} \cup {Some(n) : n \in 0..MaxLimit}
Days == 0..MaxDays

Min(a, b) == IF a < b THEN a ELSE b

\* s[-n:] for a Python list s and an integer n
SliceLast(s, n) ==
    IF n > 0
    THEN IF Len(s) <= n THEN s ELSE SubSeq(s, Len(s) - n + 1, Len(s))
    ELSE IF n = 0 THEN s
    ELSE IF -n >= Len(s) THEN <<>> ELSE SubSeq(s, 1 - n, Len(s))

\* s[:n] for a Python list s and n >= 0
SliceFirst(s, n) == IF Len(s) <= n THEN s ELSE SubSeq(s, 1, n)

\* the values a later datetime.now() can return
LaterNow(t) == t..Min(t + 1, MaxTime)

\* a generator that repeats its first value
uuid4_repeat(given) == 1

\* a generator that gives out the smallest id no stored session has
uuid4_recycled(given) ==
    CHOOSE x \in 1..(Len(given) + 1) :
        /\ x \notin DOMAIN sessions
        /\ \A y \in 1..(x - 1) : y \in DOMAIN sessions

\* str(uuid.uuid4()): a value no earlier call returned
uuid4(given) == Len(given) + 1

-----------------------------------------------------------------------------
(* The process around the store: the files, the index and the request *)

\* the knowledge-base file: absent, or a text the splitter cuts into chunks
\* (no chunk when the text is empty)
KnowledgeBase(present, chunks) == [present |-> present, chunks |-> chunks]

\* the index directory: absent, an empty directory, a directory whose index
\* files are written in part, or the complete index of so many chunks
NoIndexDir == [state |-> "absent", chunks |-> 0]
EmptyIndexDir == [state |-> "empty", chunks |-> 0]
PartialIndex == [state |-> "partial", chunks |-> 0]
CompleteIndex(n) == [state |-> "complete", chunks |-> n]

\* no chat request is being handled
NoRequest ==
    [pc |-> "idle", supplied |-> None, session_id |-> None, message |-> None,
     history |-> <<>>, include_sources |-> FALSE, embedded |-> "none",
     source_docs |-> <<>>]

\* no call to a backend is in flight
BackendsIdle == [embedding |-> "idle", llm |-> "idle"]

\* the startup has ended: the index of n chunks is on disk and in memory
Serving(n) ==
    /\ kb = KnowledgeBase(TRUE, n)
    /\ disk = CompleteIndex(n)
    /\ vectorstore = Some(n)
    /\ boot = [pc |-> "serving", via |-> "load", error |-> "none"]
    /\ req = NoRequest
    /\ backend = BackendsIdle

-----------------------------------------------------------------------------
(* ChatHistoryService *)

\* a thread that is in no call
NoLocals == [message |-> None, slice |-> None, result |-> None]

Init ==
    /\ now = 0
    /\ sessions = <<>>
    /\ issued = <<>>
    /\ sent = [s \in SessionIds |-> 0]
    /\ ret = [op |-> "init", sid |-> 0, arg |-> None, val |-> None]
    /\ pc = [t \in Threads |-> "idle"]
    /\ local = [t \in Threads |-> NoLocals]
    /\ Serving(1)

\* the dict create_session stores
session_data(session_id, t1, t2) ==
    [session_id |-> session_id, created_at |-> t1, last_activity |-> t2,
     messages |-> <<>>]

\* self.sessions[session_id] = session_data
DictSet(d, k, v) == [x \in DOMAIN d \cup {k} |-> IF x = k THEN v ELSE d[x]]

\* del self.sessions[session_id]
DictDel(d, k) == [x \in DOMAIN d \ {k} |-> d[x]]

create_session ==
    /\ Len(issued) < Cardinality(SessionIds)
    /\ LET session_id == uuid4(issued)
       IN \E t2 \in LaterNow(now) :
            /\ sessions' = DictSet(sessions, session_id,
                                   session_data(session_id, now, t2))
            /\ issued' = Append(issued, session_id)
            /\ now' = t2
            /\ ret' = [op |-> "create_session", sid |-> session_id,
                       arg |-> None, val |-> Some(session_id)]
    /\ UNCHANGED <<sent, threadVars, serviceVars>>

RECURSIVE SumOver(_, _)
SumOver(f, ids) ==
    IF ids = {} THEN 0
    ELSE LET s == CHOOSE x \in ids : TRUE
         IN f[s] + SumOver(f, ids \ {s})

\* the number of messages stored so far
TotalSent == SumOver(sent, SessionIds)

\* the message dict add_message builds
Message(role, content, t, metadata) ==
    [role |-> role, content |-> content, timestamp |-> t,
     metadata |-> IF metadata = None THEN EmptyDict ELSE metadata[1]]

\* trimming that compares with >= after slicing one too many
Trim_one_more(messages) ==
    IF Len(messages) > max_messages_per_session + 1
    THEN SliceLast(messages, max_messages_per_session + 1)
    ELSE messages

\* trimming that keeps the oldest messages: messages[:max]
Trim_oldest(messages) ==
    IF Len(messages) > max_messages_per_session
    THEN SubSeq(messages, 1, max_messages_per_session)
    ELSE messages

\* lines 95-96: keep only the last max_messages_per_session messages
Trim(messages) ==
    IF Len(messages) > max_messages_per_session
    THEN SliceLast(messages, max_messages_per_session)
    ELSE messages

\* add_message that puts the new message in front of the list
Added_newest_first(sd, message, t2) ==
    [sd EXCEPT !.messages = Trim(<<message>> \o sd.messages),
               !.last_activity = t2]

\* an append that leaves last_activity as it was
Added_no_refresh(sd, message, t2) ==
    [sd EXCEPT !.messages = Trim(Append(sd.messages, message))]

\* the session_data after add_message stored message at time t2
Added(sd, message, t2) ==
    [sd EXCEPT !.messages = Trim(Append(sd.messages, message)),
               !.last_activity = t2]

\* add_message that creates the session when the id is unknown
add_message_autocreate(session_id, role, content, metadata) ==
    /\ TotalSent < MaxAppends
    /\ LET sd == IF session_id \in DOMAIN sessions THEN sessions[session_id]
                 ELSE [session_id |-> session_id, created_at |-> now,
                       last_activity |-> now, messages |-> <<>>]
       IN sessions' = [x \in DOMAIN sessions \cup {session_id} |->
                         IF x = session_id
                         THEN Added(sd, Message(role, content, now, metadata), now)
                         ELSE sessions[x]]
    /\ sent' = [sent EXCEPT ![session_id] = @ + 1]
    /\ ret' = [op |-> "add_message", sid |-> session_id,
               arg |-> Some(content), val |-> Some(TRUE)]
    /\ UNCHANGED <<now, issued, threadVars, serviceVars>>

\* add_message that refuses a session idle for the session timeout and drops it
add_message_expiring(session_id, role, content, metadata) ==
    IF session_id \notin DOMAIN sessions
    THEN /\ ret' = [op |-> "add_message", sid |-> session_id,
                    arg |-> Some(content), val |-> Some(FALSE)]
         /\ UNCHANGED <<now, sessions, issued, sent, threadVars, serviceVars>>
    ELSE IF now - sessions[session_id].last_activity >= session_timeout
    THEN /\ sessions' = [x \in DOMAIN sessions \ {session_id} |-> sessions[x]]
         /\ ret' = [op |-> "add_message", sid |-> session_id,
                    arg |-> Some(content), val |-> Some(FALSE)]
         /\ UNCHANGED <<now, issued, sent, threadVars, serviceVars>>
    ELSE /\ TotalSent < MaxAppends
         /\ sessions' = [sessions EXCEPT ![session_id] =
               Added(@, Message(role, content, now, metadata), now)]
         /\ sent' = [sent EXCEPT ![session_id] = @ + 1]
         /\ ret' = [op |-> "add_message", sid |-> session_id,
                    arg |-> Some(content), val |-> Some(TRUE)]
         /\ UNCHANGED <<now, issued, threadVars, serviceVars>>

add_message(session_id, role, content, metadata) ==
    IF session_id \notin DOMAIN sessions
    THEN /\ ret' = [op |-> "add_message", sid |-> session_id,
                    arg |-> Some(content), val |-> Some(FALSE)]
         /\ UNCHANGED <<now, sessions, issued, sent, threadVars, serviceVars>>
    ELSE /\ TotalSent < MaxAppends
         /\ \E t2 \in LaterNow(now) :
              /\ sessions' = [sessions EXCEPT ![session_id] =
                    Added(@, Message(role, content, now, metadata), t2)]
              /\ now' = t2
         /\ sent' = [sent EXCEPT ![session_id] = @ + 1]
         /\ ret' = [op |-> "add_message", sid |-> session_id,
                    arg |-> Some(content), val |-> Some(TRUE)]
         /\ UNCHANGED <<issued, threadVars, serviceVars>>

\* The n-th message callers store under session_id: they alternate a user turn
\* without metadata and an assistant turn with metadata (routes.py, chat_endpoint);
\* the content names the session it was sent to and its serial number there.
InputRole(n) == IF n % 2 = 1 THEN "user" ELSE "assistant"
InputMetadata(n) == IF n % 2 = 1 THEN None ELSE Some({"sources_count"})
InputContent(session_id, n) == [to |-> session_id, n |-> n]

AddMessage(session_id) ==
    LET n == sent[session_id] + 1
    IN add_message(session_id, InputRole(n), InputContent(session_id, n),
                   InputMetadata(n))

\* ChatMessage(role=msg["role"], content=msg["content"])
ChatMessage(msg) == [role |-> msg.role, content |-> msg.content]

\* the value get_session_history returns
session_history(store, session_id, limit) ==
    IF session_id \notin DOMAIN store
    THEN <<>>
    ELSE LET messages == store[session_id].messages
             lim == IF limit = None THEN max_messages_per_session ELSE limit[1]
             kept == IF lim # 0 /\ lim > 0 THEN SliceLast(messages, lim)
                     ELSE messages
         IN [i \in 1..Len(kept) |-> ChatMessage(kept[i])]

\* a read that counts as activity of the session
get_session_history_refreshing(session_id, limit) ==
    /\ ret' = [op |-> "get_session_history", sid |-> session_id,
               arg |-> limit, val |-> session_history(sessions, session_id, limit)]
    /\ sessions' = IF session_id \in DOMAIN sessions
                   THEN [sessions EXCEPT ![session_id].last_activity = now]
                   ELSE sessions
    /\ UNCHANGED <<now, issued, sent, threadVars, serviceVars>>

\* lines 118-148
get_session_history(session_id, limit) ==
    /\ ret' = [op |-> "get_session_history", sid |-> session_id,
               arg |-> limit, val |-> session_history(sessions, session_id, limit)]
    /\ UNCHANGED <<now, sessions, issued, sent, threadVars, serviceVars>>

\* _is_session_active, evaluated when datetime.now() returns t
is_session_active(sd, t) == t - sd.last_activity < session_timeout

\* datetime.isoformat(): the zero-padded decimal digits of the date
isoformat(t) == <<t \div 10, t % 10>>

\* a < b for two strings of digits (Python's str comparison)
RECURSIVE StrLess(_, _)
StrLess(a, b) ==
    IF a = <<>> THEN b # <<>>
    ELSE IF b = <<>> THEN FALSE
    ELSE IF Head(a) # Head(b) THEN Head(a) < Head(b)
    ELSE StrLess(Tail(a), Tail(b))

\* the session_info dict of get_session_info and list_sessions
session_info(sd, t) ==
    [session_id |-> sd.session_id,
     created_at |-> isoformat(sd.created_at),
     last_activity |-> isoformat(sd.last_activity),
     message_count |-> Len(sd.messages),
     is_active |-> is_session_active(sd, t)]

get_session_info(session_id) ==
    /\ ret' = [op |-> "get_session_info", sid |-> session_id, arg |-> None,
               val |-> IF session_id \in DOMAIN sessions
                       THEN Some(session_info(sessions[session_id], now))
                       ELSE None]
    /\ UNCHANGED <<now, sessions, issued, sent, threadVars, serviceVars>>

\* the keys of self.sessions in the dict's order: insertion order, which is the
\* order of the uuid4() calls that made them
RECURSIVE DictKeys(_)
DictKeys(d) ==
    IF DOMAIN d = {} THEN <<>>
    ELSE LET k == CHOOSE x \in DOMAIN d : \A y \in DOMAIN d : x <= y
         IN <<k>> \o DictKeys(DictDel(d, k))

\* list.sort(key=lambda x: x["last_activity"], reverse=True): stable, so equal
\* keys keep their order; x goes behind every element whose key is not smaller
RECURSIVE InsertDesc(_, _)
InsertDesc(x, sorted) ==
    IF sorted = <<>> THEN <<x>>
    ELSE IF StrLess(Head(sorted).last_activity, x.last_activity)
         THEN <<x>> \o sorted
         ELSE <<Head(sorted)>> \o InsertDesc(x, Tail(sorted))

RECURSIVE SortDesc(_, _)
SortDesc(list, done) ==
    IF list = <<>> THEN done
    ELSE SortDesc(Tail(list), InsertDesc(Head(list), done))

\* the value list_sessions returns
session_list(store, t, limit) ==
    LET keys == DictKeys(store)
        infos == [i \in 1..Len(keys) |-> session_info(store[keys[i]], t)]
        sorted == SortDesc(infos, <<>>)
    IN IF limit > 0 THEN SliceFirst(sorted, limit) ELSE sorted

list_sessions(limit) ==
    /\ ret' = [op |-> "list_sessions", sid |-> 0, arg |-> Some(limit),
               val |-> session_list(sessions, now, limit)]
    /\ UNCHANGED <<now, sessions, issued, sent, threadVars, serviceVars>>

\* delete_session that reports success for an absent id too
delete_session_always_true(session_id) ==
    /\ sessions' = [x \in DOMAIN sessions \ {session_id} |-> sessions[x]]
    /\ ret' = [op |-> "delete_session", sid |-> session_id,
               arg |-> None, val |-> Some(TRUE)]
    /\ UNCHANGED <<now, issued, sent, threadVars, serviceVars>>

delete_session(session_id) ==
    /\ IF session_id \in DOMAIN sessions
       THEN /\ sessions' = DictDel(sessions, session_id)
            /\ ret' = [op |-> "delete_session", sid |-> session_id,
                       arg |-> None, val |-> Some(TRUE)]
       ELSE /\ sessions' = sessions
            /\ ret' = [op |-> "delete_session", sid |-> session_id,
                       arg |-> None, val |-> Some(FALSE)]
    /\ UNCHANGED <<now, issued, sent, threadVars, serviceVars>>

\* datetime.now() - timedelta(days=days)
cutoff_time(t, days) == t - days

\* a sweep that compares with <=
sessions_to_delete_inclusive(store, t, days) ==
    {s \in DOMAIN store : store[s].last_activity <= cutoff_time(t, days)}

\* sessions_to_delete of cleanup_old_sessions
sessions_to_delete(store, t, days) ==
    {s \in DOMAIN store : store[s].last_activity < cutoff_time(t, days)}

cleanup_old_sessions(days) ==
    LET old == sessions_to_delete(sessions, now, days)
    IN /\ sessions' = [s \in DOMAIN sessions \ old |-> sessions[s]]
       /\ ret' = [op |-> "cleanup_old_sessions", sid |-> 0, arg |-> Some(days),
                  val |-> Some(Cardinality(old))]
       /\ UNCHANGED <<now, issued, sent, threadVars, serviceVars>>

RECURSIVE SumMessages(_, _)
SumMessages(store, ids) ==
    IF ids = {} THEN 0
    ELSE LET s == CHOOSE x \in ids : TRUE
         IN Len(store[s].messages) + SumMessages(store, ids \ {s})

\* the value get_memory_stats returns
memory_stats(store, t) ==
    [total_sessions |-> Cardinality(DOMAIN store),
     active_sessions |->
        Cardinality({s \in DOMAIN store : is_session_active(store[s], t)}),
     total_messages |-> SumMessages(store, DOMAIN store),
     max_messages_per_session |-> max_messages_per_session,
     storage_type |-> "in_memory"]

get_memory_stats ==
    /\ ret' = [op |-> "get_memory_stats", sid |-> 0, arg |-> None,
               val |-> Some(memory_stats(sessions, now))]
    /\ UNCHANGED <<now, sessions, issued, sent, threadVars, serviceVars>>

\* the clock advances between two calls
Tick ==
    /\ now < MaxTime
    /\ now' = now + 1
    /\ ret' = [op |-> "tick", sid |-> 0, arg |-> None, val |-> None]
    /\ UNCHANGED <<sessions, issued, sent, threadVars, serviceVars>>

\* one call at a time: each call runs to its end before the next starts
Next ==
    \/ create_session
    \/ \E s \in SessionIds : AddMessage(s)
    \/ \E s \in SessionIds, l \in Limits : get_session_history(s, l)
    \/ \E s \in SessionIds : get_session_info(s)
    \/ \E l \in 0..MaxLimit : list_sessions(l)
    \/ \E s \in SessionIds : delete_session(s)
    \/ \E d \in Days : cleanup_old_sessions(d)
    \/ get_memory_stats
    \/ Tick

Spec == Init /\ [][Next]_vars

-----------------------------------------------------------------------------
(* Two request threads in add_message on the same session.  The store takes  *)
(* no lock, so the threads interleave between the statements of add_message; *)
(* one statement on the shared dict or list is one step.                     *)

\* the session both threads append to
SharedId == 1

\* the messages of a session after k appends in a row at time 0
RECURSIVE Prefilled(_)
Prefilled(k) ==
    IF k = 0 THEN <<>>
    ELSE Trim(Append(Prefilled(k - 1),
                     Message(InputRole(k), InputContent(SharedId, k), 0,
                             InputMetadata(k))))

\* the message thread t appends
ThreadMessage(t) ==
    Message(InputRole(sent[SharedId] + t),
            InputContent(SharedId, sent[SharedId] + t), now,
            InputMetadata(sent[SharedId] + t))

ThreadInit ==
    /\ now = 0
    /\ issued = <<SharedId>>
    /\ \E k \in 0..max_messages_per_session :
         /\ sessions = [s \in {SharedId} |->
                          [session_data(SharedId, 0, 0)
                             EXCEPT !.messages = Prefilled(k)]]
         /\ sent = [s \in SessionIds |-> IF s = SharedId THEN k ELSE 0]
    /\ ret = [op |-> "init", sid |-> 0, arg |-> None, val |-> None]
    /\ pc = [t \in Threads |-> "start"]
    /\ local = [t \in Threads |-> NoLocals]
    /\ Serving(1)

\* lines 77-88: the membership test, session_data and the message dict
t_start(t) ==
    /\ pc[t] = "start"
    /\ IF SharedId \notin DOMAIN sessions
       THEN /\ pc' = [pc EXCEPT ![t] = "done"]
            /\ local' = [local EXCEPT ![t].result = Some(FALSE)]
       ELSE /\ pc' = [pc EXCEPT ![t] = "append"]
            /\ local' = [local EXCEPT ![t].message = Some(ThreadMessage(t))]
    /\ UNCHANGED <<storeVars, serviceVars>>

\* line 91: session_data["messages"].append(message)
t_append(t) ==
    /\ pc[t] = "append"
    /\ sessions' = [sessions EXCEPT ![SharedId].messages =
                        Append(@, local[t].message[1])]
    /\ pc' = [pc EXCEPT ![t] = "activity"]
    /\ UNCHANGED <<now, issued, sent, ret, local, serviceVars>>

\* line 92: session_data["last_activity"] = datetime.now()
t_activity(t) ==
    /\ pc[t] = "activity"
    /\ sessions' = [sessions EXCEPT ![SharedId].last_activity = now]
    /\ pc' = [pc EXCEPT ![t] = "check"]
    /\ UNCHANGED <<now, issued, sent, ret, local, serviceVars>>

\* line 95: if len(session_data["messages"]) > self.max_messages_per_session
t_check(t) ==
    /\ pc[t] = "check"
    /\ IF Len(sessions[SharedId].messages) > max_messages_per_session
       THEN /\ pc' = [pc EXCEPT ![t] = "slice"]
            /\ local' = local
       ELSE /\ pc' = [pc EXCEPT ![t] = "done"]
            /\ local' = [local EXCEPT ![t].result = Some(TRUE)]
    /\ UNCHANGED <<storeVars, serviceVars>>

\* line 96, right-hand side: session_data["messages"][-5:], a new list
t_slice(t) ==
    /\ pc[t] = "slice"
    /\ local' = [local EXCEPT ![t].slice =
                    Some(SliceLast(sessions[SharedId].messages,
                                   max_messages_per_session))]
    /\ pc' = [pc EXCEPT ![t] = "assign"]
    /\ UNCHANGED <<storeVars, serviceVars>>

\* line 96, the store: session_data["messages"] = <the new list>; line 100
t_assign(t) ==
    /\ pc[t] = "assign"
    /\ sessions' = [sessions EXCEPT ![SharedId].messages = local[t].slice[1]]
    /\ pc' = [pc EXCEPT ![t] = "done"]
    /\ local' = [local EXCEPT ![t].result = Some(TRUE)]
    /\ UNCHANGED <<now, issued, sent, ret, serviceVars>>

ThreadNext ==
    \E t \in Threads :
        \/ t_start(t)
        \/ t_append(t)
        \/ t_activity(t)
        \/ t_check(t)
        \/ t_slice(t)
        \/ t_assign(t)

SpecThreads == ThreadInit /\ [][ThreadNext]_vars

-----------------------------------------------------------------------------
(* One thread in cleanup_old_sessions, list_sessions or get_memory_stats     *)
(* while another thread is in create_session or delete_session.  The store  *)
(* takes no lock; one statement on the shared dict, or one step of a loop   *)
(* over it, is one step.                                                     *)

\* the thread that walks the dict and the thread that changes it
Reader == 1
Writer == 2

\* iter() on a view of a dict: the iterator keeps the size the dict had when
\* it was made and the place of the last entry it gave out
NewIter(d) == [used |-> Cardinality(DOMAIN d), pos |-> 0]

\* next() raises RuntimeError("dictionary changed size during iteration")
IterRaises(it, d) == Cardinality(DOMAIN d) # it.used

\* the entries behind the iterator's place, and the first of them
IterLeft(it, d) == {k \in DOMAIN d : k > it.pos}
IterKey(it, d) == CHOOSE k \in IterLeft(it, d) : \A j \in IterLeft(it, d) : k <= j

\* the locals of a call that has not started; initial is the store as it was
\* when the two calls began
ScanLocals(store) ==
    [op |-> "none", arg |-> 0, it |-> NewIter(<<>>),
     sessions_to_delete |-> <<>>, deleted_count |-> 0, sessions |-> <<>>,
     total_sessions |-> 0, total_messages |-> 0, active_sessions |-> 0,
     result |-> None, initial |-> store]

\* two sessions, last active on any days up to now; the first holds two messages
ScanInit ==
    /\ now = MaxTime
    /\ issued = <<1, 2>>
    /\ \E a \in [SessionIds -> 0..MaxTime] :
         LET store == [s \in SessionIds |->
                         [session_data(s, 0, a[s]) EXCEPT !.messages =
                             IF s = SharedId THEN Prefilled(2) ELSE <<>>]]
         IN /\ sessions = store
            /\ local = [t \in Threads |-> ScanLocals(store)]
    /\ sent = [s \in SessionIds |-> IF s = SharedId THEN 2 ELSE 0]
    /\ ret = [op |-> "init", sid |-> 0, arg |-> None, val |-> None]
    /\ pc = [t \in Threads |-> "start"]
    /\ Serving(1)

\* the call of thread t ends with value v
Returns(t, v) ==
    /\ pc' = [pc EXCEPT ![t] = "done"]
    /\ local' = [local EXCEPT ![t].result = Some(v)]

\* lines 255-260: cutoff_time, the empty list, and the iterator of the for loop
cleanup_start(days) ==
    /\ pc[Reader] = "start"
    /\ pc' = [pc EXCEPT ![Reader] = "cleanup_next"]
    /\ local' = [local EXCEPT ![Reader].op = "cleanup_old_sessions",
                              ![Reader].arg = days,
                              ![Reader].it = NewIter(sessions)]
    /\ UNCHANGED <<storeVars, serviceVars>>

\* lines 260-265: one turn of the loop; a RuntimeError of next() leaves the
\* outer try (lines 280-282: return 0)
cleanup_next ==
    /\ pc[Reader] = "cleanup_next"
    /\ LET l == local[Reader]
       IN IF IterRaises(l.it, sessions)
          THEN Returns(Reader, 0)
          ELSE IF IterLeft(l.it, sessions) # {}
          THEN LET k == IterKey(l.it, sessions)
               IN /\ local' = [local EXCEPT
                        ![Reader].it.pos = k,
                        ![Reader].sessions_to_delete =
                            IF sessions[k].last_activity < cutoff_time(now, l.arg)
                            THEN Append(@, k) ELSE @]
                  /\ pc' = pc
          ELSE /\ pc' = [pc EXCEPT ![Reader] = "cleanup_delete"]
               /\ local' = local
    /\ UNCHANGED <<storeVars, serviceVars>>

\* lines 272-278: one turn of the deleting loop; del raises KeyError for a key
\* that left the dict (lines 280-282: return 0)
cleanup_delete ==
    /\ pc[Reader] = "cleanup_delete"
    /\ LET l == local[Reader]
       IN IF l.sessions_to_delete = <<>>
          THEN /\ Returns(Reader, l.deleted_count)
               /\ sessions' = sessions
          ELSE LET k == Head(l.sessions_to_delete)
               IN IF k \notin DOMAIN sessions
                  THEN /\ Returns(Reader, 0)
                       /\ sessions' = sessions
                  ELSE /\ sessions' = DictDel(sessions, k)
                       /\ local' = [local EXCEPT
                             ![Reader].sessions_to_delete = Tail(@),
                             ![Reader].deleted_count = @ + 1]
                       /\ pc' = pc
    /\ UNCHANGED <<now, issued, sent, ret, serviceVars>>

\* lines 189-192: the empty list and the iterator of the for loop
list_start(limit) ==
    /\ pc[Reader] = "start"
    /\ pc' = [pc EXCEPT ![Reader] = "list_next"]
    /\ local' = [local EXCEPT ![Reader].op = "list_sessions",
                              ![Reader].arg = limit,
                              ![Reader].it = NewIter(sessions)]
    /\ UNCHANGED <<storeVars, serviceVars>>

\* lines 192-215: one turn of the loop and, after the last, the sort and the
\* limit; a RuntimeError of next() leaves the outer try (lines 217-219: [])
list_next ==
    /\ pc[Reader] = "list_next"
    /\ LET l == local[Reader]
       IN IF IterRaises(l.it, sessions)
          THEN Returns(Reader, <<>>)
          ELSE IF IterLeft(l.it, sessions) # {}
          THEN LET k == IterKey(l.it, sessions)
               IN /\ local' = [local EXCEPT
                        ![Reader].it.pos = k,
                        ![Reader].sessions =
                            Append(@, session_info(sessions[k], now))]
                  /\ pc' = pc
          ELSE LET sorted == SortDesc(l.sessions, <<>>)
               IN Returns(Reader, IF l.arg > 0 THEN SliceFirst(sorted, l.arg)
                                  ELSE sorted)
    /\ UNCHANGED <<storeVars, serviceVars>>

\* line 300: total_sessions = len(self.sessions)
stats_len ==
    /\ pc[Reader] = "start"
    /\ pc' = [pc EXCEPT ![Reader] = "stats_sum_iter"]
    /\ local' = [local EXCEPT ![Reader].op = "get_memory_stats",
                              ![Reader].total_sessions =
                                  Cardinality(DOMAIN sessions)]
    /\ UNCHANGED <<storeVars, serviceVars>>

\* line 301: the iterator of self.sessions.values() in the first sum
stats_sum_iter ==
    /\ pc[Reader] = "stats_sum_iter"
    /\ pc' = [pc EXCEPT ![Reader] = "stats_sum_next"]
    /\ local' = [local EXCEPT ![Reader].it = NewIter(sessions)]
    /\ UNCHANGED <<storeVars, serviceVars>>

\* line 301: one term of the sum; a RuntimeError leaves the try (311-313: {})
stats_sum_next ==
    /\ pc[Reader] = "stats_sum_next"
    /\ LET l == local[Reader]
       IN IF IterRaises(l.it, sessions)
          THEN Returns(Reader, <<>>)
          ELSE IF IterLeft(l.it, sessions) # {}
          THEN LET k == IterKey(l.it, sessions)
               IN /\ local' = [local EXCEPT
                        ![Reader].it.pos = k,
                        ![Reader].total_messages =
                            @ + Len(sessions[k].messages)]
                  /\ pc' = pc
          ELSE /\ pc' = [pc EXCEPT ![Reader] = "stats_active_iter"]
               /\ local' = local
    /\ UNCHANGED <<storeVars, serviceVars>>

\* line 302: the iterator of self.sessions.values() in the second sum
stats_active_iter ==
    /\ pc[Reader] = "stats_active_iter"
    /\ pc' = [pc EXCEPT ![Reader] = "stats_active_next"]
    /\ local' = [local EXCEPT ![Reader].it = NewIter(sessions)]
    /\ UNCHANGED <<storeVars, serviceVars>>

\* lines 302-310: one term of the second sum and, after the last, the dict
stats_active_next ==
    /\ pc[Reader] = "stats_active_next"
    /\ LET l == local[Reader]
       IN IF IterRaises(l.it, sessions)
          THEN Returns(Reader, <<>>)
          ELSE IF IterLeft(l.it, sessions) # {}
          THEN LET k == IterKey(l.it, sessions)
               IN /\ local' = [local EXCEPT
                        ![Reader].it.pos = k,
                        ![Reader].active_sessions =
                            IF is_session_active(sessions[k], now)
                            THEN @ + 1 ELSE @]
                  /\ pc' = pc
          ELSE Returns(Reader,
                       [total_sessions |-> l.total_sessions,
                        active_sessions |-> l.active_sessions,
                        total_messages |-> l.total_messages,
                        max_messages_per_session |-> max_messages_per_session,
                        storage_type |-> "in_memory"])
    /\ UNCHANGED <<storeVars, serviceVars>>

\* create_session in the other thread: line 54 is its one statement on the dict
writer_create ==
    /\ pc[Writer] = "start"
    /\ LET session_id == uuid4(issued)
       IN \E t2 \in LaterNow(now) :
            /\ sessions' = DictSet(sessions, session_id,
                                   session_data(session_id, now, t2))
            /\ issued' = Append(issued, session_id)
            /\ now' = t2
            /\ pc' = [pc EXCEPT ![Writer] = "done"]
            /\ local' = [local EXCEPT ![Writer].op = "create_session",
                                      ![Writer].arg = session_id,
                                      ![Writer].result = Some(session_id)]
    /\ UNCHANGED <<sent, ret, serviceVars>>

\* delete_session in the other thread, line 232: if session_id in self.sessions
writer_delete_test(session_id) ==
    /\ pc[Writer] = "start"
    /\ IF session_id \in DOMAIN sessions
       THEN /\ pc' = [pc EXCEPT ![Writer] = "delete"]
            /\ local' = [local EXCEPT ![Writer].op = "delete_session",
                                      ![Writer].arg = session_id]
       ELSE /\ pc' = [pc EXCEPT ![Writer] = "done"]
            /\ local' = [local EXCEPT ![Writer].op = "delete_session",
                                      ![Writer].arg = session_id,
                                      ![Writer].result = Some(FALSE)]
    /\ UNCHANGED <<storeVars, serviceVars>>

\* line 233: del self.sessions[session_id]; a KeyError gives False (240-242)
writer_delete_del ==
    /\ pc[Writer] = "delete"
    /\ IF local[Writer].arg \in DOMAIN sessions
       THEN /\ sessions' = DictDel(sessions, local[Writer].arg)
            /\ Returns(Writer, TRUE)
       ELSE /\ sessions' = sessions
            /\ Returns(Writer, FALSE)
    /\ UNCHANGED <<now, issued, sent, ret, serviceVars>>

ScanNext ==
    \/ \E d \in Days : cleanup_start(d)
    \/ cleanup_next
    \/ cleanup_delete
    \/ \E l \in 0..MaxLimit : list_start(l)
    \/ list_next
    \/ stats_len
    \/ stats_sum_iter
    \/ stats_sum_next
    \/ stats_active_iter
    \/ stats_active_next
    \/ writer_create
    \/ \E s \in SessionIds : writer_delete_test(s)
    \/ writer_delete_del

SpecScan == ScanInit /\ [][ScanNext]_vars

-----------------------------------------------------------------------------
(* RAGService.retrieve_documents *)

\* a float, as a fraction <<numerator, denominator>> with denominator > 0
FracLeq(a, b) == a[1] * b[2] <= b[1] * a[2]
FracLess(a, b) == a[1] * b[2] < b[1] * a[2]

\* the distances FAISS reports, in halves; rounding can put one below zero
Distances == {<<n, 2>> : n \in -1..MaxDist}

\* the values of score_threshold: 0, 0.6 (chat_service.py line 142), the
\* default 0.7 and 1
Thresholds == {<<0, 1>>, <<3, 5>>, <<7, 10>>, <<1, 1>>}

\* the values of k
Ks == 1..MaxK

\* the chunks of an index of n chunks
Chunks(n) == 1..n

\* similarity_search_with_score(query, k) on an index of n chunks: the
\* min(k, n) nearest chunks with their distances, nearest first
SearchResults(n, k) ==
    {h \in [1..Min(k, n) -> Chunks(n) \X Distances] :
        /\ \A i, j \in DOMAIN h : i < j => FracLeq(h[i][2], h[j][2])
        /\ \A i, j \in DOMAIN h : i # j => h[i][1] # h[j][1]}

\* a value returned, or an exception raised, by a call
Returned(v) == [raised |-> FALSE, val |-> v]
Raised(e) == [raised |-> TRUE, val |-> e]

\* a conversion that leaves the distance as it is
similarity_score_distance(score) == score

\* a conversion without the test for a positive distance
similarity_score_unguarded(score) == <<score[2], score[2] + score[1]>>

\* line 197: 1 / (1 + score) if score > 0 else 1.0
similarity_score(score) ==
    IF score[1] > 0 THEN <<score[2], score[2] + score[1]>> ELSE <<1, 1>>

\* SourceDocument(content=..., metadata=..., score=...), lines 200-204
SourceDocument(doc, score) == [chunk_id |-> doc, score |-> score]

\* a filter that compares with >
RECURSIVE source_docs_above(_, _)
source_docs_above(docs_with_scores, score_threshold) ==
    IF docs_with_scores = <<>> THEN <<>>
    ELSE LET doc == Head(docs_with_scores)[1]
             sim == similarity_score(Head(docs_with_scores)[2])
             rest == source_docs_above(Tail(docs_with_scores), score_threshold)
         IN IF FracLess(score_threshold, sim)
            THEN <<SourceDocument(doc, sim)>> \o rest
            ELSE rest

\* lines 194-205: the loop that converts each distance and keeps the documents
\* whose score reaches the threshold
RECURSIVE source_docs(_, _)
source_docs(docs_with_scores, score_threshold) ==
    IF docs_with_scores = <<>> THEN <<>>
    ELSE LET doc == Head(docs_with_scores)[1]
             sim == similarity_score(Head(docs_with_scores)[2])
             rest == source_docs(Tail(docs_with_scores), score_threshold)
         IN IF FracLeq(score_threshold, sim)
            THEN <<SourceDocument(doc, sim)>> \o rest
            ELSE rest

\* retrieve_documents that lets the exception of a failed search pass
retrieve_documents_raising(store, embedded, docs_with_scores, score_threshold) ==
    IF store = None THEN Raised("ValueError")
    ELSE IF embedded # "ok" THEN Raised("Exception")
    ELSE Returned(source_docs(docs_with_scores, score_threshold))

\* lines 186-212: store is self.vectorstore, embedded the outcome of the
\* embedding call inside similarity_search_with_score, docs_with_scores its
\* result; every exception ends in return []
retrieve_documents(store, embedded, docs_with_scores, score_threshold) ==
    IF store = None THEN Returned(<<>>)
    ELSE IF embedded # "ok" THEN Returned(<<>>)
    ELSE Returned(source_docs(docs_with_scores, score_threshold))

\* a caller is about to call retrieve_documents(query, k, score_threshold) on
\* the serving process, whose index has any size up to MaxChunks
RetrieveInit ==
    /\ now = 0
    /\ sessions = <<>>
    /\ issued = <<>>
    /\ sent = [s \in SessionIds |-> 0]
    /\ ret = [op |-> "init", sid |-> 0, arg |-> None, val |-> None]
    /\ pc = [t \in Threads |-> "idle"]
    /\ local = [t \in Threads |-> NoLocals]
    /\ \E n \in 1..MaxChunks :
         /\ kb = KnowledgeBase(TRUE, n)
         /\ disk = CompleteIndex(n)
         /\ vectorstore = Some(n)
    /\ boot = [pc |-> "serving", via |-> "load", error |-> "none"]
    /\ \E k \in Ks, score_threshold \in Thresholds :
         req = [pc |-> "retrieve", k |-> k, score_threshold |-> score_threshold]
    /\ backend = BackendsIdle

\* the call of retrieve_documents: the embedding call succeeds or fails, and
\* the search gives any result it can give
RetrieveDocuments ==
    /\ req.pc = "retrieve"
    /\ \E embedded \in {"ok", "error"} :
         \E docs_with_scores \in
                IF embedded = "ok" /\ vectorstore # None
                THEN SearchResults(vectorstore[1], req.k) ELSE {<<>>} :
            ret' = [op |-> "retrieve_documents", sid |-> 0,
                    arg |-> [k |-> req.k, score_threshold |-> req.score_threshold,
                             embedded |-> embedded,
                             docs_with_scores |-> docs_with_scores],
                    val |-> retrieve_documents(vectorstore, embedded,
                                   docs_with_scores, req.score_threshold)]
    /\ req' = NoRequest
    /\ UNCHANGED <<now, sessions, issued, sent, threadVars,
                   kb, disk, vectorstore, boot, backend>>

RetrieveNext == RetrieveDocuments

SpecRetrieve == RetrieveInit /\ [][RetrieveNext]_vars

-----------------------------------------------------------------------------
(* The startup: lifespan (app.py) constructs RAGService, whose __init__      *)
(* loads the index directory or builds the index from the knowledge base    *)
(* and saves it.  One call on the file system or on a backend is one step;  *)
(* the process can stop between any two of them and be started again.       *)

\* the position in the startup: via tells why _create_vector_store runs
BootAt(p, via) == [pc |-> p, via |-> via, error |-> "none"]
BootFailed(via, error) == [pc |-> "failed", via |-> via, error |-> error]

\* a fresh process: any knowledge-base file or none, and no index directory or
\* the complete index an earlier run saved
StartupInit ==
    /\ now = 0
    /\ sessions = <<>>
    /\ issued = <<>>
    /\ sent = [s \in SessionIds |-> 0]
    /\ ret = [op |-> "init", sid |-> 0, arg |-> None, val |-> None]
    /\ pc = [t \in Threads |-> "idle"]
    /\ local = [t \in Threads |-> NoLocals]
    /\ kb \in {KnowledgeBase(FALSE, 0)}
                \cup {KnowledgeBase(TRUE, n) : n \in 0..MaxChunks}
    /\ disk \in {NoIndexDir} \cup {CompleteIndex(n) : n \in 1..MaxChunks}
    /\ vectorstore = None
    /\ boot = BootAt("initialize", "none")
    /\ req = NoRequest
    /\ backend = BackendsIdle

\* what a startup step leaves as it is
StartupFrame == UNCHANGED <<storeVars, threadVars, kb, req, backend>>

\* lines 73-78: load when the directory exists, else create
initialize_vector_store ==
    /\ boot.pc = "initialize"
    /\ boot' = IF disk.state # "absent"
               THEN BootAt("load", "none")
               ELSE BootAt("create", "missing")
    /\ UNCHANGED <<disk, vectorstore>>
    /\ StartupFrame

\* loading that lets the exception of FAISS.load_local pass
load_vector_store_fatal ==
    /\ boot.pc = "load"
    /\ IF disk.state = "complete"
       THEN /\ vectorstore' = Some(disk.chunks)
            /\ boot' = BootAt("chat_service", "load")
       ELSE /\ vectorstore' = None
            /\ boot' = BootFailed("load", "load_local")
    /\ UNCHANGED disk
    /\ StartupFrame

\* lines 89-101: FAISS.load_local reads a complete index; on any exception
\* _create_vector_store is called
load_vector_store ==
    /\ boot.pc = "load"
    /\ IF disk.state = "complete"
       THEN /\ vectorstore' = Some(disk.chunks)
            /\ boot' = BootAt("chat_service", "load")
       ELSE /\ vectorstore' = vectorstore
            /\ boot' = BootAt("create", "load_error")
    /\ UNCHANGED disk
    /\ StartupFrame

\* lines 107-110 and 131-150: open() raises for a missing file; an empty list
\* of chunks raises ValueError; the exceptions pass through lifespan
load_and_split_documents ==
    /\ boot.pc = "create"
    /\ boot' = IF ~kb.present THEN BootFailed(boot.via, "FileNotFoundError")
               ELSE IF kb.chunks = 0 THEN BootFailed(boot.via, "ValueError")
               ELSE BootAt("from_documents", boot.via)
    /\ UNCHANGED <<disk, vectorstore>>
    /\ StartupFrame

\* lines 114-117: FAISS.from_documents embeds the chunks; the embedding
\* backend answers or fails
from_documents ==
    /\ boot.pc = "from_documents"
    /\ \E embedded \in {"ok", "error"} :
         IF embedded = "ok"
         THEN /\ vectorstore' = Some(kb.chunks)
              /\ boot' = BootAt("makedirs", boot.via)
         ELSE /\ vectorstore' = None
              /\ boot' = BootFailed(boot.via, "embedding")
    /\ UNCHANGED disk
    /\ StartupFrame

\* line 160: os.makedirs(self.vectorstore_path, exist_ok=True)
save_makedirs ==
    /\ boot.pc = "makedirs"
    /\ disk' = IF disk.state = "absent" THEN EmptyIndexDir ELSE disk
    /\ boot' = BootAt("save_local", boot.via)
    /\ UNCHANGED vectorstore
    /\ StartupFrame

\* line 163: save_local starts to write the index files into the directory
save_local_begin ==
    /\ boot.pc = "save_local"
    /\ disk' = PartialIndex
    /\ boot' = BootAt("writing", boot.via)
    /\ UNCHANGED vectorstore
    /\ StartupFrame

\* lines 163-169: save_local writes the last byte, or the write fails and the
\* exception passes through lifespan
save_local_end ==
    /\ boot.pc = "writing"
    /\ \E written \in {"ok", "error"} :
         IF written = "ok"
         THEN /\ disk' = CompleteIndex(vectorstore[1])
              /\ boot' = BootAt("chat_service", boot.via)
              /\ vectorstore' = vectorstore
         ELSE /\ disk' = disk
              /\ boot' = BootFailed(boot.via, "OSError")
              /\ vectorstore' = None
    /\ StartupFrame

\* app.py lines 50-61: the chat service is made and lifespan yields
get_chat_service ==
    /\ boot.pc = "chat_service"
    /\ boot' = BootAt("serving", boot.via)
    /\ UNCHANGED <<disk, vectorstore>>
    /\ StartupFrame

\* the process is stopped from outside, at any point
Crash ==
    /\ boot.pc \notin {"down", "failed"}
    /\ boot' = [pc |-> "down", via |-> "none", error |-> "none"]
    /\ vectorstore' = None
    /\ UNCHANGED disk
    /\ StartupFrame

\* the process is started again
Restart ==
    /\ boot.pc \in {"down", "failed"}
    /\ boot' = BootAt("initialize", "none")
    /\ UNCHANGED <<disk, vectorstore>>
    /\ StartupFrame

StartupNext ==
    \/ initialize_vector_store
    \/ load_vector_store
    \/ load_and_split_documents
    \/ from_documents
    \/ save_makedirs
    \/ save_local_begin
    \/ save_local_end
    \/ get_chat_service
    \/ Crash
    \/ Restart

SpecStartup == StartupInit /\ [][StartupNext]_vars

-----------------------------------------------------------------------------
(* A chat request: chat_endpoint (routes.py) and ChatService.generate_response. *)
(* The route is async and never awaits, so the event loop handles one request  *)
(* at a time; the request waits inside the call to the embedding backend and   *)
(* inside the call to the text backend, and these waits separate its steps.    *)

\* the fixed fallback message of generate_response (line 177)
Apology ==
    [apology |-> "I apologize, but I'm experiencing technical difficulties."]

\* the text the backend generates for a prompt: it answers the question with
\* the context the prompt carries
Reply(message, docs) == [reply_to |-> message, context |-> Len(docs)]

\* ChatResponse(message=..., sources=..., timestamp=...)
ChatResponse(message, sources, timestamp) ==
    [message |-> message, sources |-> sources, timestamp |-> timestamp]

\* generate_response that lets the exception of the text backend pass
generate_response_raising(retrieved, generated, message, include_sources, t) ==
    IF retrieved.raised \/ generated # "ok"
    THEN Raised("Exception")
    ELSE Returned(ChatResponse(Reply(message, retrieved.val),
                               IF include_sources THEN Some(retrieved.val)
                               ELSE None, t))

\* lines 136-180: retrieved is what retrieve_documents gave, generated the
\* outcome of self.llm.invoke; every exception ends in the fallback response
generate_response(retrieved, generated, message, include_sources, t) ==
    IF retrieved.raised \/ generated # "ok"
    THEN Returned(ChatResponse(Apology, None, t))
    ELSE Returned(ChatResponse(Reply(message, retrieved.val),
                               IF include_sources THEN Some(retrieved.val)
                               ELSE None, t))

\* add_message that makes the session it does not find
Stored_creating(store, session_id, role, content, metadata, t1, t2) ==
    IF session_id \notin DOMAIN store
    THEN DictSet(store, session_id,
                 Added(session_data(session_id, t1, t1),
                       Message(role, content, t1, metadata), t2))
    ELSE [store EXCEPT ![session_id] =
              Added(@, Message(role, content, t1, metadata), t2)]

\* the store after add_message(session_id, role, content, metadata) read the
\* clock at t1 and at t2 (lines 76-100)
Stored(store, session_id, role, content, metadata, t1, t2) ==
    IF session_id \notin DOMAIN store THEN store
    ELSE [store EXCEPT ![session_id] =
              Added(@, Message(role, content, t1, metadata), t2)]

\* the process serves, its store is empty, and the clock can advance once
ChatInit ==
    /\ now = MaxTime - 1
    /\ sessions = <<>>
    /\ issued = <<>>
    /\ sent = [s \in SessionIds |-> 0]
    /\ ret = [op |-> "init", sid |-> 0, arg |-> None, val |-> None]
    /\ pc = [t \in Threads |-> "idle"]
    /\ local = [t \in Threads |-> NoLocals]
    /\ Serving(1)

\* _format_chat_history (chat_service.py lines 93-108): the last five
\* messages of the history, each a line "User: ..." or "Assistant: ...", a
\* message of any other role left out; a line is <<speaker, content>>
format_chat_history(conversation_history) ==
    LET recent_messages == SliceLast(conversation_history, 5)
        spoken == SelectSeq(recent_messages,
                            LAMBDA msg : msg.role \in {"user", "assistant"})
    IN [i \in 1..Len(spoken) |->
            <<IF spoken[i].role = "user" THEN "User" ELSE "Assistant",
              spoken[i].content>>]

\* a route that stores the user turn before it reads the history
Embedding_after_store(supplied, session_id, store, include_sources) ==
    [pc |-> "embedding", supplied |-> supplied, session_id |-> Some(session_id),
     message |-> [to |-> session_id, n |-> sent[session_id] + 1],
     history |-> session_history(
                     Stored(store, session_id, "user",
                            [to |-> session_id, n |-> sent[session_id] + 1],
                            None, now, now),
                     session_id, Some(5)),
     include_sources |-> include_sources, embedded |-> "pending",
     source_docs |-> <<>>]

\* what the request becomes when the route has its session id: lines 81-88,
\* 136-143 and 187-191, up to the call of the embedding backend
Embedding(supplied, session_id, store, include_sources) ==
    [pc |-> "embedding", supplied |-> supplied, session_id |-> Some(session_id),
     message |-> [to |-> session_id, n |-> sent[session_id] + 1],
     history |-> session_history(store, session_id, Some(5)),
     include_sources |-> include_sources, embedded |-> "pending",
     source_docs |-> <<>>]

\* a route that makes a new session for every request
chat_endpoint_start_always_new(supplied, include_sources) ==
    /\ boot.pc = "serving"
    /\ req.pc = "idle"
    /\ TotalSent + 2 <= MaxAppends
    /\ Len(issued) < Cardinality(SessionIds)
    /\ LET session_id == uuid4(issued)
       IN \E t2 \in LaterNow(now) :
            /\ sessions' = DictSet(sessions, session_id,
                                   session_data(session_id, now, t2))
            /\ issued' = Append(issued, session_id)
            /\ now' = t2
            /\ req' = Embedding(supplied, session_id, sessions', include_sources)
    /\ backend' = [backend EXCEPT !.embedding = "pending"]
    /\ UNCHANGED <<sent, ret, threadVars, kb, disk, vectorstore, boot>>

\* routes.py lines 67-88: a request arrives with a session id or none; with
\* none the route calls create_session; it reads the history and calls
\* generate_response, which calls retrieve_documents
chat_endpoint_start(supplied, include_sources) ==
    /\ boot.pc = "serving"
    /\ req.pc = "idle"
    /\ TotalSent + 2 <= MaxAppends
    /\ IF supplied = None
       THEN /\ Len(issued) < Cardinality(SessionIds)
            /\ LET session_id == uuid4(issued)
               IN \E t2 \in LaterNow(now) :
                    /\ sessions' = DictSet(sessions, session_id,
                                           session_data(session_id, now, t2))
                    /\ issued' = Append(issued, session_id)
                    /\ now' = t2
                    /\ req' = Embedding(supplied, session_id, sessions',
                                        include_sources)
       ELSE /\ req' = Embedding(supplied, supplied[1], sessions, include_sources)
            /\ UNCHANGED <<now, sessions, issued>>
    /\ backend' = [backend EXCEPT !.embedding = "pending"]
    /\ UNCHANGED <<sent, ret, threadVars, kb, disk, vectorstore, boot>>

\* the embedding backend answers the call in flight, with a vector or an error
embedding_answers ==
    /\ backend.embedding = "pending"
    /\ \E outcome \in {"ok", "error"} :
         backend' = [backend EXCEPT !.embedding = outcome]
    /\ UNCHANGED <<storeVars, threadVars, kb, disk, vectorstore, boot, req>>

\* service.py lines 191-212 and chat_service.py lines 139-158: the search
\* returns or raises, retrieve_documents returns, the prompt is formatted and
\* self.llm.invoke calls the text backend
similarity_search_returns ==
    /\ req.pc = "embedding"
    /\ backend.embedding \in {"ok", "error"}
    /\ \E docs_with_scores \in
                IF backend.embedding = "ok" /\ vectorstore # None
                THEN SearchResults(vectorstore[1], 5) ELSE {<<>>} :
         LET retrieved == retrieve_documents(vectorstore, backend.embedding,
                                             docs_with_scores, <<3, 5>>)
         IN req' = [req EXCEPT !.pc = "generating",
                               !.embedded = backend.embedding,
                               !.source_docs = retrieved.val]
    /\ backend' = [embedding |-> "idle", llm |-> "pending"]
    /\ UNCHANGED <<storeVars, threadVars, kb, disk, vectorstore, boot>>

\* the text backend answers the call in flight, with a text or an error
llm_answers ==
    /\ backend.llm = "pending"
    /\ \E outcome \in {"ok", "error"} :
         backend' = [backend EXCEPT !.llm = outcome]
    /\ UNCHANGED <<storeVars, threadVars, kb, disk, vectorstore, boot, req>>

\* the request as it ends: what the client sent and what the backends answered
Outcomes ==
    [supplied |-> req.supplied, include_sources |-> req.include_sources,
     embedded |-> req.embedded, generated |-> backend.llm]

\* chat_service.py lines 158-180 and routes.py lines 90-124: self.llm.invoke
\* returns or raises, generate_response returns, the route stores the two
\* turns and returns; an exception of generate_response becomes HTTP 500
chat_endpoint_finish ==
    /\ req.pc = "generating"
    /\ backend.llm \in {"ok", "error"}
    /\ \E tr \in LaterNow(now) :
         LET session_id == req.session_id[1]
             response == generate_response(Returned(req.source_docs),
                            backend.llm, req.message, req.include_sources, tr)
         IN IF response.raised
            THEN /\ ret' = [op |-> "chat_endpoint", sid |-> session_id,
                            arg |-> Outcomes,
                            val |-> [status |-> 500]]
                 /\ now' = tr
                 /\ UNCHANGED <<sessions, sent>>
            ELSE \E t1 \in LaterNow(tr) : \E t2 \in LaterNow(t1) :
                 \E t3 \in LaterNow(t2) : \E t4 \in LaterNow(t3) :
                    LET user == Stored(sessions, session_id, "user",
                                       req.message, None, t1, t2)
                    IN /\ sessions' = Stored(user, session_id, "assistant",
                                             response.val.message,
                                             Some({"sources_count"}), t3, t4)
                       /\ sent' = IF session_id \in DOMAIN sessions
                                  THEN [sent EXCEPT ![session_id] = @ + 2]
                                  ELSE sent
                       /\ now' = t4
                       /\ ret' = [op |-> "chat_endpoint", sid |-> session_id,
                                  arg |-> Outcomes,
                                  val |-> [status |-> 200,
                                           message |-> response.val.message,
                                           session_id |-> session_id,
                                           timestamp |-> isoformat(tr),
                                           sources |->
                                               IF req.include_sources
                                               THEN response.val.sources
                                               ELSE None]]
    /\ req' = NoRequest
    /\ backend' = BackendsIdle
    /\ UNCHANGED <<issued, threadVars, kb, disk, vectorstore, boot>>

ChatNext ==
    \/ \E supplied \in {None} \cup {Some(s) : s \in SessionIds},
          include_sources \in BOOLEAN :
            chat_endpoint_start(supplied, include_sources)
    \/ embedding_answers
    \/ similarity_search_returns
    \/ llm_answers
    \/ chat_endpoint_finish

SpecChat == ChatInit /\ [][ChatNext]_vars

\* the thread of the request runs whenever the call it waits in has returned;
\* nothing makes a client send a request or a backend answer
SpecChatFair ==
    /\ ChatInit
    /\ [][ChatNext]_vars
    /\ WF_vars(similarity_search_returns)
    /\ WF_vars(chat_endpoint_finish)

-----------------------------------------------------------------------------
(* Two constructions of RAGService at the same time on one data directory:   *)
(* two processes of the application, or two callers of get_rag_service that *)
(* both found the global unset (lines 231-232 test and assign without a     *)
(* lock).  Each has its own RAGService; the knowledge base and the index     *)
(* directory are shared.  One call on the file system or on the embedding    *)
(* backend is one step.                                                       *)

\* what FAISS.load_local found in the directory; nothing before it ran
NotLoaded == [state |-> "none", chunks |-> 0]

\* a caller of get_rag_service before RAGService.__init__ has run:
\* vectorstore is self.vectorstore, building the chunks FAISS.from_documents
\* has embedded so far, whole the size of the index when it is complete,
\* rag_service whether the global names the instance
NoService ==
    [vectorstore |-> None, building |-> 0, whole |-> 0, loaded |-> NotLoaded,
     overlapped |-> FALSE, rag_service |-> FALSE, error |-> "none"]

\* the other of the two callers
Other(t) == CHOOSE u \in Threads : u # t

PersistInit ==
    /\ now = 0
    /\ sessions = <<>>
    /\ issued = <<>>
    /\ sent = [s \in SessionIds |-> 0]
    /\ ret = [op |-> "init", sid |-> 0, arg |-> None, val |-> None]
    /\ pc = [t \in Threads |-> "initialize"]
    /\ local = [t \in Threads |-> NoService]
    /\ kb \in {KnowledgeBase(TRUE, n) : n \in 1..MaxChunks}
    /\ disk \in {NoIndexDir} \cup {CompleteIndex(n) : n \in 1..MaxChunks}
    /\ vectorstore = None
    /\ boot = BootAt("initialize", "none")
    /\ req = NoRequest
    /\ backend = BackendsIdle

\* what a step of a construction leaves as it is
PersistFrame == UNCHANGED <<storeVars, kb, vectorstore, boot, req, backend>>

\* the construction of t stops with an exception
Fails(t, error) ==
    /\ pc' = [pc EXCEPT ![t] = "failed"]
    /\ local' = [local EXCEPT ![t].vectorstore = None, ![t].error = error]

\* lines 65 and 73-78: self.vectorstore = None; load when the directory
\* exists, else create
p_initialize_vector_store(t) ==
    /\ pc[t] = "initialize"
    /\ pc' = [pc EXCEPT ![t] = IF disk.state # "absent" THEN "load" ELSE "create"]
    /\ UNCHANGED <<local, disk>>
    /\ PersistFrame

\* lines 89-101: FAISS.load_local reads the directory as it is now; a complete
\* index becomes self.vectorstore, anything else raises and
\* _create_vector_store is called
p_load_vector_store(t) ==
    /\ pc[t] = "load"
    /\ IF disk.state = "complete"
       THEN /\ pc' = [pc EXCEPT ![t] = "return"]
            /\ local' = [local EXCEPT ![t].loaded = disk,
                                      ![t].vectorstore = Some(disk.chunks),
                                      ![t].whole = disk.chunks]
       ELSE /\ pc' = [pc EXCEPT ![t] = "create"]
            /\ local' = [local EXCEPT ![t].loaded = disk]
    /\ UNCHANGED disk
    /\ PersistFrame

\* lines 107-110 and 131-150: the knowledge base is read and split
p_load_and_split_documents(t) ==
    /\ pc[t] = "create"
    /\ IF ~kb.present THEN Fails(t, "FileNotFoundError")
       ELSE IF kb.chunks = 0 THEN Fails(t, "ValueError")
       ELSE /\ pc' = [pc EXCEPT ![t] = "from_documents"]
            /\ local' = [local EXCEPT ![t].building = 0,
                                      ![t].whole = kb.chunks]
    /\ UNCHANGED disk
    /\ PersistFrame

\* a build that puts the index into self.vectorstore before it is complete
p_from_documents_embed_in_place(t) ==
    /\ pc[t] = "from_documents"
    /\ local[t].building < local[t].whole
    /\ \E embedded \in {"ok", "error"} :
         IF embedded = "ok"
         THEN /\ local' = [local EXCEPT ![t].building = @ + 1,
                                        ![t].vectorstore =
                                            Some(local[t].building + 1)]
              /\ pc' = pc
         ELSE Fails(t, "embedding")
    /\ UNCHANGED disk
    /\ PersistFrame

\* lines 114-117, inside FAISS.from_documents: the next chunk is embedded and
\* goes into the index under construction, which only from_documents holds
p_from_documents_embed(t) ==
    /\ pc[t] = "from_documents"
    /\ local[t].building < local[t].whole
    /\ \E embedded \in {"ok", "error"} :
         IF embedded = "ok"
         THEN /\ local' = [local EXCEPT ![t].building = @ + 1]
              /\ pc' = pc
         ELSE Fails(t, "embedding")
    /\ UNCHANGED disk
    /\ PersistFrame

\* line 114: from_documents returns the index of all chunks, which is
\* assigned to self.vectorstore
p_from_documents_return(t) ==
    /\ pc[t] = "from_documents"
    /\ local[t].building = local[t].whole
    /\ local' = [local EXCEPT ![t].vectorstore = Some(local[t].building)]
    /\ pc' = [pc EXCEPT ![t] = "makedirs"]
    /\ UNCHANGED disk
    /\ PersistFrame

\* line 160: os.makedirs(self.vectorstore_path, exist_ok=True)
p_save_makedirs(t) ==
    /\ pc[t] = "makedirs"
    /\ disk' = IF disk.state = "absent" THEN EmptyIndexDir ELSE disk
    /\ pc' = [pc EXCEPT ![t] = "save_local"]
    /\ UNCHANGED local
    /\ PersistFrame

\* line 163: save_local opens the index files of the directory and starts to
\* write; a save of the other construction that is writing is now overlapped
p_save_local_begin(t) ==
    /\ pc[t] = "save_local"
    /\ disk' = PartialIndex
    /\ pc' = [pc EXCEPT ![t] = "writing"]
    /\ local' = IF pc[Other(t)] = "writing"
                THEN [local EXCEPT ![t].overlapped = TRUE,
                                   ![Other(t)].overlapped = TRUE]
                ELSE local
    /\ PersistFrame

\* lines 163-169: save_local writes its last byte, or the write fails.  While
\* the other save is writing the files are in part its own; two saves that
\* wrote the same files at the same time leave them complete or mixed
p_save_local_end(t) ==
    /\ pc[t] = "writing"
    /\ \E written \in {"ok", "error"} :
         IF written = "ok"
         THEN /\ pc' = [pc EXCEPT ![t] = "return"]
              /\ local' = local
              /\ disk' \in
                    IF pc[Other(t)] = "writing" THEN {PartialIndex}
                    ELSE IF local[t].overlapped
                    THEN {CompleteIndex(local[t].vectorstore[1]), PartialIndex}
                    ELSE {CompleteIndex(local[t].vectorstore[1])}
         ELSE /\ Fails(t, "OSError")
              /\ disk' = disk
    /\ PersistFrame

\* line 232: RAGService() has returned and the global names the instance
p_get_rag_service_return(t) ==
    /\ pc[t] = "return"
    /\ pc' = [pc EXCEPT ![t] = "serving"]
    /\ local' = [local EXCEPT ![t].rag_service = TRUE]
    /\ UNCHANGED disk
    /\ PersistFrame

\* a retrieval call on the instance the global names (lines 186-191): val is
\* the index its search ran on
p_retrieve_documents(t) ==
    /\ local[t].rag_service
    /\ ret' = [op |-> "retrieve_documents", sid |-> t, arg |-> None,
               val |-> local[t].vectorstore]
    /\ UNCHANGED <<now, sessions, issued, sent, threadVars, serviceVars>>

PersistNext ==
    \E t \in Threads :
        \/ p_initialize_vector_store(t)
        \/ p_load_vector_store(t)
        \/ p_load_and_split_documents(t)
        \/ p_from_documents_embed(t)
        \/ p_from_documents_return(t)
        \/ p_save_makedirs(t)
        \/ p_save_local_begin(t)
        \/ p_save_local_end(t)
        \/ p_get_rag_service_return(t)
        \/ p_retrieve_documents(t)

SpecPersist == PersistInit /\ [][PersistNext]_vars

-----------------------------------------------------------------------------
(* A chat request up to the response the client gets: the try block of       *)
(* chat_endpoint, its except clauses (routes.py) and the exception handlers  *)
(* of the application (app.py).  get_chat_service (line 71) constructs       *)
(* ChatService, and with it RAGService, when the global is still None: that  *)
(* is so in an application object whose lifespan did not run (a host that    *)
(* sends no lifespan events); every exception of the construction passes     *)
(* through get_chat_service into the try block.                              *)

\* an exception: its class and str(e)
Fault(type, text) == [type |-> type, text |-> text]

\* the two fixed messages of the boundary (routes.py line 123, app.py 174)
RequestFailed ==
    "An error occurred while processing your request. Please try again."
InternalServerError == "Internal server error"

\* ChatService() at get_chat_service: RAGService.__init__ loads the index
\* directory or builds the index (service.py lines 70-126, 131-169); embedded
\* and written are the outcomes of the embedding call and of save_local.  The
\* result: the exception raised or none, the directory and self.vectorstore
constructed(kbv, diskv, embedded, written) ==
    LET failed(type, text, d) ==
            [raised |-> TRUE, fault |-> Fault(type, text), disk |-> d,
             vectorstore |-> None]
        created ==
            IF ~kbv.present
            THEN failed("FileNotFoundError", "No such file or directory", diskv)
            ELSE IF kbv.chunks = 0
            THEN failed("ValueError",
                        "No documents found in the knowledge base", diskv)
            ELSE IF embedded # "ok"
            THEN failed("GoogleGenerativeAIError", "Error embedding content",
                        diskv)
            ELSE IF written # "ok"
            THEN failed("OSError", "No space left on device", PartialIndex)
            ELSE [raised |-> FALSE, fault |-> Fault("none", ""),
                  disk |-> CompleteIndex(kbv.chunks),
                  vectorstore |-> Some(kbv.chunks)]
    IN IF diskv.state = "complete"
       THEN [raised |-> FALSE, fault |-> Fault("none", ""), disk |-> diskv,
             vectorstore |-> Some(diskv.chunks)]
       ELSE created

\* HTTPException(status_code=..., detail=...)
HTTPException(status_code, detail) ==
    [type |-> "HTTPException", status_code |-> status_code, detail |-> detail]

\* routes.py lines 113-124: the exception the route raises for exception e
chat_endpoint_except(e) ==
    IF e.type = "ValueError"
    THEN HTTPException(400, e.text)
    ELSE HTTPException(500, RequestFailed)

\* ErrorResponse(error=..., detail=..., timestamp=...).dict() in a JSONResponse
ErrorResponse(status_code, error, detail, timestamp) ==
    [status |-> status_code, error |-> error, detail |-> detail,
     timestamp |-> timestamp]

\* app.py lines 154-164
http_exception_handler(exc, t) ==
    ErrorResponse(exc.status_code, exc.detail,
                  <<"HTTP", exc.status_code, "error">>, t)

\* app.py lines 167-178
general_exception_handler(exc, t) ==
    ErrorResponse(500, InternalServerError,
                  <<"An unexpected error occurred. Please try again later.">>,
                  t)

\* the handler the application picks for an exception that left the route
exception_handler(exc, t) ==
    IF exc.type = "HTTPException" THEN http_exception_handler(exc, t)
    ELSE general_exception_handler(exc, t)

\* the application object with its lifespan run (services built, index
\* loaded) or not run (no service built; any knowledge-base file and index
\* directory the disk can hold)
BoundaryInit ==
    /\ now = MaxTime - 1
    /\ sessions = <<>>
    /\ issued = <<>>
    /\ sent = [s \in SessionIds |-> 0]
    /\ ret = [op |-> "init", sid |-> 0, arg |-> None, val |-> None]
    /\ pc = [t \in Threads |-> "idle"]
    /\ local = [t \in Threads |-> NoLocals]
    /\ \/ Serving(1)
       \/ /\ kb \in {KnowledgeBase(FALSE, 0)}
                      \cup {KnowledgeBase(TRUE, n) : n \in 0..1}
          /\ disk \in {NoIndexDir, EmptyIndexDir, CompleteIndex(1)}
          /\ vectorstore = None
          /\ boot = BootAt("initialize", "none")
          /\ req = NoRequest
          /\ backend = BackendsIdle

\* the request in the try block, after get_chat_service returned
InTry(supplied, include_sources) ==
    [pc |-> "try", supplied |-> supplied, include_sources |-> include_sources,
     fault |-> Fault("none", ""), exc |-> None]

\* lines 67-72: the request arrives and get_chat_service returns the service,
\* constructing it when there is none yet, or raises what the construction
\* raised; the global stays None then
boundary_get_chat_service(supplied, include_sources) ==
    /\ req.pc = "idle"
    /\ TotalSent + 2 <= MaxAppends
    /\ IF boot.pc = "serving"
       THEN /\ req' = InTry(supplied, include_sources)
            /\ UNCHANGED <<disk, vectorstore, boot>>
       ELSE \E embedded, written \in {"ok", "error"} :
              LET made == constructed(kb, disk, embedded, written)
              IN /\ disk' = made.disk
                 /\ vectorstore' = made.vectorstore
                 /\ boot' = IF made.raised THEN boot
                            ELSE BootAt("serving", "lazy")
                 /\ req' = IF made.raised
                           THEN [InTry(supplied, include_sources)
                                    EXCEPT !.pc = "except",
                                           !.fault = made.fault]
                           ELSE InTry(supplied, include_sources)
    /\ UNCHANGED <<storeVars, threadVars, kb, backend>>

\* lines 74-111: with the services at hand nothing in the try block raises:
\* the session is made or taken, the history read, the response generated
\* (the fallback included), the two turns stored and the reply returned
boundary_try ==
    /\ req.pc = "try"
    /\ req.supplied = None => Len(issued) < Cardinality(SessionIds)
    /\ \E tc \in LaterNow(now), embedded, generated \in {"ok", "error"} :
       \E docs_with_scores \in
              IF embedded = "ok" THEN SearchResults(vectorstore[1], 5)
              ELSE {<<>>} :
       \E tr \in LaterNow(tc) : \E t1 \in LaterNow(tr) :
       \E t2 \in LaterNow(t1) : \E t3 \in LaterNow(t2) :
       \E t4 \in LaterNow(t3) :
         LET session_id == IF req.supplied = None THEN uuid4(issued)
                           ELSE req.supplied[1]
             store == IF req.supplied = None
                      THEN DictSet(sessions, session_id,
                                   session_data(session_id, now, tc))
                      ELSE sessions
             message == [to |-> session_id, n |-> sent[session_id] + 1]
             retrieved == retrieve_documents(vectorstore, embedded,
                                             docs_with_scores, <<3, 5>>)
             response == generate_response(retrieved, generated, message,
                                           req.include_sources, tr).val
             user == Stored(store, session_id, "user", message, None, t1, t2)
         IN /\ sessions' = Stored(user, session_id, "assistant",
                                  response.message, Some({"sources_count"}),
                                  t3, t4)
            /\ issued' = IF req.supplied = None
                         THEN Append(issued, session_id) ELSE issued
            /\ sent' = IF session_id \in DOMAIN store
                       THEN [sent EXCEPT ![session_id] = @ + 2] ELSE sent
            /\ now' = t4
            /\ ret' = [op |-> "chat_endpoint", sid |-> session_id,
                       arg |-> [supplied |-> req.supplied,
                                fault |-> req.fault],
                       val |-> [status |-> 200, error |-> "none",
                                detail |-> <<>>,
                                timestamp |-> isoformat(tr)]]
    /\ req' = NoRequest
    /\ UNCHANGED <<threadVars, kb, disk, vectorstore, boot, backend>>

\* lines 113-124: the except clause that matches raises an HTTPException
boundary_except ==
    /\ req.pc = "except"
    /\ req' = [req EXCEPT !.pc = "handler",
                          !.exc = Some(chat_endpoint_except(req.fault))]
    /\ UNCHANGED <<storeVars, threadVars, kb, disk, vectorstore, boot, backend>>

\* app.py lines 154-178: the handler of the application makes the response
boundary_exception_handler ==
    /\ req.pc = "handler"
    /\ \E t \in LaterNow(now) :
         /\ ret' = [op |-> "chat_endpoint", sid |-> 0,
                    arg |-> [supplied |-> req.supplied, fault |-> req.fault],
                    val |-> exception_handler(req.exc[1], isoformat(t))]
         /\ now' = t
    /\ req' = NoRequest
    /\ UNCHANGED <<sessions, issued, sent, threadVars, kb, disk, vectorstore,
                   boot, backend>>

BoundaryNext ==
    \/ \E supplied \in {None} \cup {Some(s) : s \in SessionIds},
          include_sources \in BOOLEAN :
            boundary_get_chat_service(supplied, include_sources)
    \/ boundary_try
    \/ boundary_except
    \/ boundary_exception_handler

SpecBoundary == BoundaryInit /\ [][BoundaryNext]_vars

-----------------------------------------------------------------------------
(* Two clients that send chat requests at the same time.  chat_endpoint is   *)
(* an async function that never awaits (routes.py lines 52-124) and the      *)
(* calls of the backends inside it block: the event loop of the one process  *)
(* app.py starts runs a handler from its first line to its return before it  *)
(* runs another, while the request of the other client waits at the server.  *)
(* The handler is modelled in three steps, one ending at each call that      *)
(* writes the store.                                                          *)

\* a client with no request under way; during is the position of the other
\* client when the request was received
NoCall ==
    [supplied |-> None, during |-> "idle", session_id |-> None,
     message |-> None, history |-> <<>>, response |-> None]

\* the positions of a handler that has begun and not returned
InHandler == {"generating", "stored_user"}

\* a route made a plain function, which the framework runs on a thread of
\* its pool: a handler begins whatever the other does
LoopFree_threadpool(t) == TRUE

\* the event loop is free to begin the handler of t: no other handler has
\* begun and not returned
LoopFree(t) == \A u \in Threads \ {t} : pc[u] \notin InHandler

LoopInit ==
    /\ now = MaxTime
    /\ sessions = <<>>
    /\ issued = <<>>
    /\ sent = [s \in SessionIds |-> 0]
    /\ ret = [op |-> "init", sid |-> 0, arg |-> None, val |-> None]
    /\ pc = [t \in Threads |-> "idle"]
    /\ local = [t \in Threads |-> NoCall]
    /\ Serving(1)

\* what a step of a handler leaves as it is
LoopFrame == UNCHANGED <<kb, disk, vectorstore, boot, req, backend>>

\* the appends the requests under way will still make
AppendsUnderWay ==
    LET left(u) == IF pc[u] \in {"received", "generating"} THEN 2
                   ELSE IF pc[u] = "stored_user" THEN 1 ELSE 0
    IN SumOver([u \in Threads |-> left(u)], Threads)

\* a client sends a request, with a session id a response gave out or with
\* none; the server accepts it
loop_receive(t) ==
    /\ pc[t] = "idle"
    /\ TotalSent + AppendsUnderWay + 2 <= MaxAppends
    /\ pc' = [pc EXCEPT ![t] = "received"]
    /\ \E supplied \in {None} \cup {Some(s) : s \in DOMAIN sessions} :
         local' = [local EXCEPT ![t] = [NoCall EXCEPT !.supplied = supplied,
                                                     !.during = pc[Other(t)]]]
    /\ UNCHANGED storeVars
    /\ LoopFrame

\* routes.py lines 67-88: the handler begins; without a session id it calls
\* create_session; it reads the history and calls generate_response
loop_start(t) ==
    /\ pc[t] = "received"
    /\ LoopFree(t)
    /\ LET supplied == local[t].supplied
       IN IF supplied = None
          THEN /\ Len(issued) < Cardinality(SessionIds)
               /\ LET session_id == uuid4(issued)
                  IN \E t2 \in LaterNow(now) :
                       /\ sessions' = DictSet(sessions, session_id,
                                          session_data(session_id, now, t2))
                       /\ issued' = Append(issued, session_id)
                       /\ now' = t2
                       /\ local' = [local EXCEPT ![t].session_id =
                                                     Some(session_id),
                                        ![t].message =
                                            [to |-> session_id, by |-> t,
                                             n |-> sent[session_id] + 1],
                                        ![t].history = <<>>]
          ELSE /\ local' = [local EXCEPT ![t].session_id = supplied,
                                ![t].message =
                                    [to |-> supplied[1], by |-> t,
                                     n |-> sent[supplied[1]] + 1],
                                ![t].history =
                                    session_history(sessions, supplied[1],
                                                    Some(5))]
               /\ UNCHANGED <<now, sessions, issued>>
    /\ pc' = [pc EXCEPT ![t] = "generating"]
    /\ UNCHANGED <<sent, ret>>
    /\ LoopFrame

\* chat_service.py lines 136-180 and routes.py lines 84-95: the backends
\* answer or fail, generate_response returns and the user turn is stored
loop_store_user(t) ==
    /\ pc[t] = "generating"
    /\ \E embedded, generated \in {"ok", "error"} :
       \E docs_with_scores \in
              IF embedded = "ok" THEN SearchResults(vectorstore[1], 5)
              ELSE {<<>>} :
       \E tr \in LaterNow(now) : \E t1 \in LaterNow(tr) :
       \E t2 \in LaterNow(t1) :
         LET session_id == local[t].session_id[1]
             retrieved == retrieve_documents(vectorstore, embedded,
                                             docs_with_scores, <<3, 5>>)
             response == generate_response(retrieved, generated,
                                           local[t].message, FALSE, tr).val
         IN /\ sessions' = Stored(sessions, session_id, "user",
                                  local[t].message, None, t1, t2)
            /\ sent' = IF session_id \in DOMAIN sessions
                       THEN [sent EXCEPT ![session_id] = @ + 1] ELSE sent
            /\ local' = [local EXCEPT ![t].response = Some(response)]
            /\ now' = t2
    /\ pc' = [pc EXCEPT ![t] = "stored_user"]
    /\ UNCHANGED <<issued, ret>>
    /\ LoopFrame

\* routes.py lines 97-111: the reply is stored and returned
loop_store_assistant(t) ==
    /\ pc[t] = "stored_user"
    /\ \E t3 \in LaterNow(now) : \E t4 \in LaterNow(t3) :
         LET session_id == local[t].session_id[1]
             response == local[t].response[1]
         IN /\ sessions' = Stored(sessions, session_id, "assistant",
                                  response.message, Some({"sources_count"}),
                                  t3, t4)
            /\ sent' = IF session_id \in DOMAIN sessions
                       THEN [sent EXCEPT ![session_id] = @ + 1] ELSE sent
            /\ now' = t4
            /\ ret' = [op |-> "chat_endpoint", sid |-> session_id,
                       arg |-> [supplied |-> local[t].supplied, by |-> t,
                                during |-> local[t].during],
                       val |-> [status |-> 200,
                                message |-> response.message,
                                session_id |-> session_id]]
    /\ pc' = [pc EXCEPT ![t] = "idle"]
    /\ local' = [local EXCEPT ![t] = NoCall]
    /\ UNCHANGED issued
    /\ LoopFrame

LoopNext ==
    \E t \in Threads :
        \/ loop_receive(t)
        \/ loop_start(t)
        \/ loop_store_user(t)
        \/ loop_store_assistant(t)

SpecLoop == LoopInit /\ [][LoopNext]_vars

-----------------------------------------------------------------------------
(* get_chat_history_service called from two threads (chat_history_service.py *)
(* lines 316-325): the test of the global, the construction, the assignment  *)
(* and the return are separate steps and nothing locks them.  The instance a *)
(* thread constructs is named by the thread; a request then works on the     *)
(* instance its call returned.                                                *)

\* a thread outside any request: sessions is self.sessions of the instance
\* the thread constructed (None: it constructed none), named whether the
\* global names that instance, returned the thread whose instance the last
\* call of this thread returned
NoInstance == [sessions |-> None, named |-> FALSE, returned |-> None]

\* the thread whose instance the global names; None while the global is None
GlobalStore(l) ==
    IF \E u \in Threads : l[u].named
    THEN Some(CHOOSE u \in Threads : l[u].named)
    ELSE None

SingletonInit ==
    /\ now = 0
    /\ sessions = <<>>
    /\ issued = <<>>
    /\ sent = [s \in SessionIds |-> 0]
    /\ ret = [op |-> "init", sid |-> 0, arg |-> None, val |-> None]
    /\ pc = [t \in Threads |-> "idle"]
    /\ local = [t \in Threads |-> NoInstance]
    /\ Serving(1)

\* what a step of a call leaves as it is
SingletonFrame ==
    UNCHANGED <<now, sessions, sent, kb, disk, vectorstore, boot, req, backend>>

\* routes.py line 72: a request calls get_chat_history_service
s_call(t) ==
    /\ pc[t] = "idle"
    /\ pc' = [pc EXCEPT ![t] = "test"]
    /\ UNCHANGED <<local, issued, ret>>
    /\ SingletonFrame

\* line 323: if chat_history_service is None
s_test(t) ==
    /\ pc[t] = "test"
    /\ pc' = [pc EXCEPT ![t] = IF GlobalStore(local) = None THEN "construct"
                               ELSE "return"]
    /\ UNCHANGED <<local, issued, ret>>
    /\ SingletonFrame

\* line 324, right-hand side: ChatHistoryService() makes an empty store
s_construct(t) ==
    /\ pc[t] = "construct"
    /\ local' = [local EXCEPT ![t].sessions = Some(<<>>)]
    /\ pc' = [pc EXCEPT ![t] = "assign"]
    /\ UNCHANGED <<issued, ret>>
    /\ SingletonFrame

\* line 324: the global is assigned the new instance
s_assign(t) ==
    /\ pc[t] = "assign"
    /\ local' = [u \in Threads |-> [local[u] EXCEPT !.named = (u = t)]]
    /\ pc' = [pc EXCEPT ![t] = "return"]
    /\ UNCHANGED <<issued, ret>>
    /\ SingletonFrame

\* line 325: return chat_history_service
s_return(t) ==
    /\ pc[t] = "return"
    /\ local' = [local EXCEPT ![t].returned = GlobalStore(local)]
    /\ pc' = [pc EXCEPT ![t] = "use"]
    /\ UNCHANGED <<issued, ret>>
    /\ SingletonFrame

\* routes.py line 77: the request creates a session in the instance its call
\* returned
s_create_session(t) ==
    /\ pc[t] = "use"
    /\ Len(issued) < Cardinality(SessionIds)
    /\ LET owner == local[t].returned[1]
           session_id == uuid4(issued)
       IN /\ local' = [local EXCEPT ![owner].sessions =
                          Some(DictSet(@[1], session_id,
                                       session_data(session_id, now, now)))]
          /\ issued' = Append(issued, session_id)
          /\ ret' = [op |-> "create_session", sid |-> session_id,
                     arg |-> Some(owner), val |-> Some(TRUE)]
    /\ pc' = [pc EXCEPT ![t] = "idle"]
    /\ SingletonFrame

\* routes.py line 81: the request carries a session id an earlier response
\* gave out and reads the session in the instance its call returned; val
\* tells whether that instance holds the session
s_get_session_history(t) ==
    /\ pc[t] = "use"
    /\ \E session_id \in {issued[i] : i \in DOMAIN issued} :
         LET owner == local[t].returned[1]
         IN ret' = [op |-> "get_session_history", sid |-> session_id,
                    arg |-> Some(owner),
                    val |-> Some(session_id \in DOMAIN local[owner].sessions[1])]
    /\ pc' = [pc EXCEPT ![t] = "idle"]
    /\ UNCHANGED <<local, issued>>
    /\ SingletonFrame

SingletonNext ==
    \E t \in Threads :
        \/ s_call(t)
        \/ s_test(t)
        \/ s_construct(t)
        \/ s_assign(t)
        \/ s_return(t)
        \/ s_create_session(t)
        \/ s_get_session_history(t)

SpecSingleton == SingletonInit /\ [][SingletonNext]_vars

-----------------------------------------------------------------------------
(* Properties of the session store *)

\* the last k elements of a sequence, in order
LastElems(seq, k) == [i \in 1..k |-> seq[Len(seq) - k + i]]

\* C1: in every reachable state every session of the store holds at most
\* max_messages_per_session = 5 messages.
C1_CapHolds ==
    \A s \in DOMAIN sessions :
        Len(sessions[s].messages) <= max_messages_per_session

\* a session that received seven messages and holds five
C1_Witness ==
    \E s \in DOMAIN sessions :
        sent[s] = 7 /\ Len(sessions[s].messages) = max_messages_per_session

\* C2: a session that received n messages holds exactly the last min(5, n) of
\* them, in the order they were sent: each append leaves the last
\* min(5, len + 1) of the previous messages followed by the new one, and after
\* seven appends the session holds messages 3..7.
C2_KeepsLastInOrder ==
    \A s \in DOMAIN sessions :
        LET m == sessions[s].messages
            k == Min(max_messages_per_session, sent[s])
        IN /\ Len(m) = k
           /\ \A i \in 1..Len(m) :
                /\ m[i].content = InputContent(s, sent[s] - k + i)
                /\ m[i].role = InputRole(sent[s] - k + i)

\* seven messages were appended to one session, which holds messages 3..7
C2_Witness ==
    /\ ret.op = "add_message" /\ ret.val = Some(TRUE)
    /\ ret.sid \in DOMAIN sessions
    /\ sent[ret.sid] = 7
    /\ [i \in 1..Len(sessions[ret.sid].messages) |->
            sessions[ret.sid].messages[i].content.n] = <<3, 4, 5, 6, 7>>

\* C3: add_message with an id that is not in the store returns False and
\* leaves the store as it was: no session is created, no session changes, and
\* get_memory_stats reports the same total_messages before and after.
C3_UnknownAppend ==
    [][ret'.op = "add_message" =>
          /\ (ret'.sid \notin DOMAIN sessions) <=> (ret'.val = Some(FALSE))
          /\ ret'.sid \notin DOMAIN sessions =>
                /\ sessions' = sessions
                /\ now' = now
                /\ memory_stats(sessions', now').total_messages
                      = memory_stats(sessions, now).total_messages]_vars

\* an append to an unknown id was refused while another session held messages
C3_Witness ==
    /\ ret.op = "add_message" /\ ret.val = Some(FALSE)
    /\ ret.sid \notin DOMAIN sessions
    /\ \E s \in DOMAIN sessions : Len(sessions[s].messages) > 0

\* C4: get_session_history returns [] for an unknown id and, for a known id
\* and a limit >= 0 (no limit meaning 5), exactly the most recent
\* min(limit, len(messages)) messages, oldest first.
C4_HistoryLimit ==
    ret.op = "get_session_history" =>
        IF ret.sid \notin DOMAIN sessions
        THEN ret.val = <<>>
        ELSE LET m == sessions[ret.sid].messages
                 limit == IF ret.arg = None THEN max_messages_per_session
                          ELSE ret.arg[1]
                 k == Min(limit, Len(m))
             IN ret.val = [i \in 1..k |-> ChatMessage(LastElems(m, k)[i])]

\* C5: the ids create_session returned are pairwise distinct, and every
\* message a session holds or get_session_history returns for it was sent to
\* that session id.
C5_SessionIsolation ==
    /\ \A i, j \in DOMAIN issued : i # j => issued[i] # issued[j]
    /\ \A s \in DOMAIN sessions :
         \A i \in DOMAIN sessions[s].messages :
            sessions[s].messages[i].content.to = s
    /\ \A s \in SessionIds, l \in Limits :
         \A i \in DOMAIN session_history(sessions, s, l) :
            session_history(sessions, s, l)[i].content.to = s

\* two sessions exist, each holds messages, and the history of one was read
C5_Witness ==
    /\ Len(issued) = 2
    /\ \A s \in SessionIds :
         s \in DOMAIN sessions /\ Len(sessions[s].messages) >= 2
    /\ ret.op = "get_session_history" /\ Len(ret.val) >= 2

\* C6: cleanup_old_sessions(days) removes exactly the sessions whose
\* last_activity is earlier than now - days, leaves every other session as it
\* was, and returns the number of sessions it removed (0 when none is that old).
C6_CleanupExact ==
    [][ret'.op = "cleanup_old_sessions" =>
          LET old == {s \in DOMAIN sessions :
                        sessions[s].last_activity < now - ret'.arg[1]}
          IN /\ DOMAIN sessions' = DOMAIN sessions \ old
             /\ \A s \in DOMAIN sessions' : sessions'[s] = sessions[s]
             /\ ret'.val = Some(Cardinality(old))]_vars

\* a sweep removed one session and left another, which holds messages
C6_Witness ==
    /\ ret.op = "cleanup_old_sessions" /\ ret.val = Some(1)
    /\ \E s \in DOMAIN sessions : Len(sessions[s].messages) > 0

\* C7: after cleanup_old_sessions(0) the store holds no session, whenever the
\* sessions were last active.
C7_CleanupZeroEmpties ==
    (ret.op = "cleanup_old_sessions" /\ ret.arg = Some(0)) => DOMAIN sessions = {}

\* a session idle for the session timeout or longer is read in full
C8_Readable ==
    \A s \in DOMAIN sessions :
        ~is_session_active(sessions[s], now) =>
            session_history(sessions, s, None)
                = [i \in 1..Len(sessions[s].messages) |->
                      ChatMessage(sessions[s].messages[i])]

\* a step removes a session only by delete_session or a sweep that selects it,
\* and add_message on a session of the store returns True
C8_Step ==
    /\ \A s \in DOMAIN sessions :
         s \notin DOMAIN sessions' =>
            \/ ret'.op = "delete_session" /\ ret'.sid = s
            \/ /\ ret'.op = "cleanup_old_sessions"
               /\ sessions[s].last_activity < now - ret'.arg[1]
    /\ \A s \in DOMAIN sessions :
         (ret'.op = "add_message" /\ ret'.sid = s) =>
            /\ ret'.val = Some(TRUE)
            /\ s \in DOMAIN sessions'
            /\ Len(sessions'[s].messages) > 0

\* C8: a session leaves the store only in a delete_session call on its id or in
\* a cleanup_old_sessions call whose cutoff it is older than; a session idle for
\* the session timeout or longer stays readable (get_session_history returns
\* its messages) and add_message on it returns True.
C8_OnlyExplicitRemoval == []C8_Readable /\ [][C8_Step]_vars

\* a message was appended to a session two days after the session was made
\* and one day or more after its last activity
C8_Witness ==
    /\ ret.op = "add_message" /\ ret.val = Some(TRUE)
    /\ ret.sid \in DOMAIN sessions
    /\ LET m == sessions[ret.sid].messages
       IN /\ Len(m) = 1
          /\ sessions[ret.sid].created_at = 0
          /\ m[1].timestamp = MaxTime

\* C9: delete_session(id) returns False and changes nothing when id is not in
\* the store; otherwise it returns True, removes that session and leaves every
\* other session as it was.
C9_DeleteExact ==
    [][ret'.op = "delete_session" =>
          IF ret'.sid \in DOMAIN sessions
          THEN /\ ret'.val = Some(TRUE)
               /\ DOMAIN sessions' = DOMAIN sessions \ {ret'.sid}
               /\ \A s \in DOMAIN sessions' : sessions'[s] = sessions[s]
          ELSE /\ ret'.val = Some(FALSE)
               /\ sessions' = sessions]_vars

\* a session was deleted and another session, which holds messages, is left
C9_Witness ==
    /\ ret.op = "delete_session" /\ ret.val = Some(TRUE)
    /\ \E s \in DOMAIN sessions : Len(sessions[s].messages) > 0

-----------------------------------------------------------------------------
(* Properties of concurrent appends *)

\* the messages after thread a's add_message ran to its end, then thread b's
SerialOutcome(a, b) ==
    Trim(Append(Trim(Append(Prefilled(sent[SharedId]), local[a].message[1])),
                local[b].message[1]))

\* C10: when two threads have appended to the same session, both calls
\* returned True, the session holds at most 5 messages, and its messages are
\* those one of the two serial orders of the appends leaves.
C10_AppendsSerializable ==
    (\A t \in Threads : pc[t] = "done") =>
        /\ \A t \in Threads : local[t].result = Some(TRUE)
        /\ Len(sessions[SharedId].messages) <= max_messages_per_session
        /\ \/ sessions[SharedId].messages = SerialOutcome(1, 2)
           \/ sessions[SharedId].messages = SerialOutcome(2, 1)

-----------------------------------------------------------------------------
(* Properties of a walk over the store during a change *)

\* the store and the value the writer's call gives when it runs alone on store
WriterAlone(store) ==
    LET w == local[Writer]
    IN IF w.op = "create_session"
       THEN [store |-> DictSet(store, w.arg, session_data(w.arg, now, now)),
             val |-> Some(w.arg)]
       ELSE IF w.arg \in DOMAIN store
       THEN [store |-> DictDel(store, w.arg), val |-> Some(TRUE)]
       ELSE [store |-> store, val |-> Some(FALSE)]

\* the store and the value the reader's call gives when it runs alone on store
ReaderAlone(store) ==
    LET r == local[Reader]
    IN IF r.op = "cleanup_old_sessions"
       THEN LET old == sessions_to_delete(store, now, r.arg)
            IN [store |-> [s \in DOMAIN store \ old |-> store[s]],
                val |-> Some(Cardinality(old))]
       ELSE IF r.op = "list_sessions"
       THEN [store |-> store, val |-> Some(session_list(store, now, r.arg))]
       ELSE [store |-> store, val |-> Some(memory_stats(store, now))]

\* C11: when a cleanup_old_sessions, list_sessions or get_memory_stats call
\* and a create_session or delete_session call of another thread have both
\* returned, the two values and the store are those of one of the two serial
\* orders of the calls.
C11_ScanSerializable ==
    (\A t \in Threads : pc[t] = "done") =>
        LET initial == local[Reader].initial
            r1 == ReaderAlone(initial)
            w2 == WriterAlone(r1.store)
            w1 == WriterAlone(initial)
            r2 == ReaderAlone(w1.store)
        IN \/ /\ local[Reader].result = r1.val
              /\ local[Writer].result = w2.val
              /\ sessions = w2.store
           \/ /\ local[Writer].result = w1.val
              /\ local[Reader].result = r2.val
              /\ sessions = r2.store

-----------------------------------------------------------------------------
(* Properties of retrieve_documents *)

\* the places of the hits whose converted score reaches the threshold
Clearing(docs_with_scores, score_threshold) ==
    {i \in DOMAIN docs_with_scores :
        FracLeq(score_threshold, similarity_score(docs_with_scores[i][2]))}

\* C12: when the search ran, retrieve_documents(query, k, score_threshold)
\* returns exactly the hits of the search whose converted score is >=
\* score_threshold, in search order: every returned score lies in
\* [score_threshold, 1], every hit reaching the threshold is returned, nothing
\* else is returned, and the length is at most k.
C12_ExactlyClearingHits ==
    (ret.op = "retrieve_documents" /\ ret.arg.embedded = "ok") =>
        LET hits == ret.arg.docs_with_scores
            thr == ret.arg.score_threshold
            keep == Clearing(hits, thr)
            out == ret.val.val
        IN /\ ~ret.val.raised
           /\ Len(out) = Cardinality(keep)
           /\ Len(out) <= ret.arg.k
           /\ \A i \in keep :
                LET j == Cardinality({x \in keep : x <= i})
                IN /\ out[j].chunk_id = hits[i][1]
                   /\ out[j].score = similarity_score(hits[i][2])
           /\ \A j \in DOMAIN out :
                FracLeq(thr, out[j].score) /\ FracLeq(out[j].score, <<1, 1>>)

\* of three hits the first, at exactly the threshold, and the second were
\* returned and the third, below the threshold, was not
C12_Witness ==
    /\ ret.op = "retrieve_documents" /\ ret.arg.embedded = "ok"
    /\ Len(ret.arg.docs_with_scores) = 3
    /\ Len(ret.val.val) = 2
    /\ ret.arg.score_threshold = <<3, 5>>
    /\ ret.val.val[2].score = <<2, 3>>
    /\ ret.val.val[1].chunk_id = 3

\* C13 as stated: the returned documents are strictly descending by score.
C13_StrictlyDescending ==
    ret.op = "retrieve_documents" =>
        \A i, j \in DOMAIN ret.val.val :
            i < j => FracLess(ret.val.val[j].score, ret.val.val[i].score)

\* C13: for all k and all thresholds the documents retrieve_documents returns
\* are descending by score, hits at the same distance having the same score:
\* no document has a higher score than a document before it.
C13_Descending ==
    ret.op = "retrieve_documents" =>
        \A i, j \in DOMAIN ret.val.val :
            i < j => FracLeq(ret.val.val[j].score, ret.val.val[i].score)

\* three documents were returned: two of the same score, then a lower one
C13_Witness ==
    /\ ret.op = "retrieve_documents"
    /\ Len(ret.val.val) = 3
    /\ ret.val.val[1].score = ret.val.val[2].score
    /\ FracLess(ret.val.val[3].score, ret.val.val[2].score)

\* C14: when the embedding call fails, or self.vectorstore is None,
\* retrieve_documents returns the empty list and raises nothing.
C14_DegradesToEmpty ==
    (ret.op = "retrieve_documents"
        /\ (ret.arg.embedded # "ok" \/ vectorstore = None)) =>
            ~ret.val.raised /\ ret.val.val = <<>>

\* the embedding call failed in a retrieve_documents call with threshold 0 on
\* an index that holds chunks
C14_Witness ==
    /\ ret.op = "retrieve_documents"
    /\ ret.arg.embedded = "error"
    /\ ret.arg.score_threshold = <<0, 1>>
    /\ vectorstore = Some(MaxChunks)
    /\ ret.val = Returned(<<>>)

-----------------------------------------------------------------------------
(* Properties of the startup *)

\* a serving process holds an index, the one the directory holds, and an index
\* it built holds every chunk of the knowledge base
C18_ServesFullIndex ==
    boot.pc = "serving" =>
        /\ vectorstore # None
        /\ disk = CompleteIndex(vectorstore[1])
        /\ boot.via \in {"missing", "load_error"} =>
              kb.present /\ kb.chunks > 0 /\ vectorstore = Some(kb.chunks)

\* a missing directory, and a directory that does not load, lead to the build
\* and not to a failure; the build that ends has saved the index it built
C18_Step ==
    /\ (boot.pc = "initialize" /\ disk.state = "absent" /\ boot'.pc # "down")
          => boot' = BootAt("create", "missing")
    /\ (boot.pc = "load" /\ disk.state # "complete" /\ boot'.pc # "down")
          => boot' = BootAt("create", "load_error")
    /\ (boot.pc = "writing" /\ boot'.pc = "chat_service")
          => disk' = CompleteIndex(kb.chunks) /\ vectorstore' = Some(kb.chunks)

\* C18: when the index directory is missing the startup builds the index from
\* the knowledge base and saves it, with no error; when the directory exists
\* and loading it fails the startup does not fail but builds the index from
\* the knowledge base and saves it again; a startup that built the index
\* serves with the index of every chunk, which is also the index on disk.
C18_MissingOrBrokenIndexRebuilt == []C18_ServesFullIndex /\ [][C18_Step]_vars

\* a process serves after it found a directory that did not load and built and
\* saved the index of all chunks
C18_Witness ==
    /\ boot.pc = "serving" /\ boot.via = "load_error"
    /\ vectorstore = Some(MaxChunks)
    /\ disk = CompleteIndex(MaxChunks)

\* C19: in every startup, when the knowledge-base file is missing, or is
\* empty or gives no chunk, the process does not reach the serving state.
C19_NoServingWithoutKnowledgeBase ==
    (~kb.present \/ kb.chunks = 0) => boot.pc # "serving"

\* C20: whenever the process serves, has failed or was stopped, at any point
\* of a build or a save, the index directory is absent or holds one complete
\* index.
C20_IndexAbsentOrComplete ==
    boot.pc \in {"serving", "failed", "down"} =>
        disk.state \in {"absent", "complete"}

-----------------------------------------------------------------------------
(* Properties of a chat request *)

\* the values of a sequence
Range(seq) == {seq[i] : i \in DOMAIN seq}

\* the step in which generate_response and the route return
Finishes == req.pc = "generating" /\ req'.pc = "idle"

\* after a failed retrieval the request goes on to the text backend with no
\* context; the request ends with a response, the fallback without sources
\* when the text backend failed and else the reply to the prompt
C15_Step ==
    /\ (req.pc = "embedding" /\ req'.pc = "generating"
            /\ backend.embedding = "error")
          => req'.source_docs = <<>> /\ backend'.llm = "pending"
    /\ Finishes =>
          /\ ret'.val.status = 200
          /\ backend.llm = "error" =>
                ret'.val.message = Apology /\ ret'.val.sources = None
          /\ backend.llm = "ok" =>
                ret'.val.message = Reply(req.message, req.source_docs)

\* C15: generate_response never raises: when the text backend fails it
\* returns the one fixed apology message with no sources, and when the
\* retrieval fails it still calls the text backend, with empty context, and
\* returns its reply.
C15_GenerateNeverRaises == [][C15_Step]_vars

\* a session holds the apology of a request whose text backend failed, and a
\* later request on it, whose embedding call failed, got a reply from empty
\* context
C15_Witness ==
    /\ ret.op = "chat_endpoint" /\ ret.val.status = 200
    /\ ret.arg.embedded = "error" /\ ret.arg.generated = "ok"
    /\ ret.val.message = Reply([to |-> 1, n |-> 3], <<>>)
    /\ 1 \in DOMAIN sessions
    /\ Len(sessions[1].messages) = 4
    /\ sessions[1].messages[2].content = Apology

\* every session id that was given out is in the store
C16_IssuedStay == \A s \in Range(issued) : s \in DOMAIN sessions

\* a request without a session id makes one new session and goes on with its
\* id; a request with an id makes none; the request returns the id it went on
\* with and, when that id was given out before, has appended its two turns to
\* that session and changed no other
C16_Step ==
    /\ (req.pc = "idle" /\ req'.pc = "embedding") =>
          IF req'.supplied = None
          THEN \E new \in DOMAIN sessions' :
                  /\ new \notin DOMAIN sessions /\ new \notin Range(issued)
                  /\ DOMAIN sessions' = DOMAIN sessions \cup {new}
                  /\ issued' = Append(issued, new)
                  /\ req'.session_id = Some(new)
                  /\ \A s \in DOMAIN sessions : sessions'[s] = sessions[s]
          ELSE /\ sessions' = sessions /\ issued' = issued
               /\ req'.session_id = req'.supplied
    /\ (req.pc # "idle" /\ ~Finishes) => sessions' = sessions /\ issued' = issued
    /\ Finishes =>
          LET sid == req.session_id[1]
          IN /\ ret'.val.status = 200 /\ ret'.val.session_id = sid
             /\ issued' = issued
             /\ DOMAIN sessions' = DOMAIN sessions
             /\ \A s \in DOMAIN sessions : s # sid => sessions'[s] = sessions[s]
             /\ sid \in Range(issued) =>
                   LET old == sessions[sid].messages
                       m == sessions'[sid].messages
                       n == Len(m)
                   IN /\ n = Min(Len(old) + 2, max_messages_per_session)
                      /\ m[n - 1].role = "user"
                      /\ m[n - 1].content = req.message
                      /\ m[n].role = "assistant"
                      /\ m[n].content = ret'.val.message
                      /\ \A i \in 1..(n - 2) :
                            m[i] = old[Len(old) - (n - 2) + i]

\* C16: a chat request that supplies no session id creates exactly one new
\* session and returns its id; every later chat request that supplies that id
\* returns the same id and appends its two turns to that session, and creates
\* no session.
C16_SessionKept == []C16_IssuedStay /\ [][C16_Step]_vars

\* the third request on the one session there is returned its id; the session
\* holds the last five of the six turns
C16_Witness ==
    /\ ret.op = "chat_endpoint" /\ ret.val.status = 200
    /\ ret.arg.supplied = Some(1) /\ ret.val.session_id = 1
    /\ issued = <<1>> /\ DOMAIN sessions = {1}
    /\ sent[1] = 6
    /\ Len(sessions[1].messages) = max_messages_per_session
    /\ sessions[1].messages[1].role = "assistant"

\* C17: every chat request that was received is answered, also when a
\* backend never answers its call.
C17_RequestCompletes == (req.pc # "idle") ~> (req.pc = "idle")

-----------------------------------------------------------------------------
(* Properties of the listing, the statistics and the timestamps of the store *)

\* the sessions a list of session_info dicts names, in order
Listed(out) == [i \in DOMAIN out |-> out[i].session_id]

\* C21: list_sessions(limit), for every limit >= 0 and a store of n sessions,
\* returns min(limit, n) summaries, each the summary of a different stored
\* session, in descending order of last_activity, and no session left out was
\* active more recently than a session returned.
C21_ListMostRecent ==
    ret.op = "list_sessions" =>
        LET out == ret.val
            ids == Listed(out)
        IN /\ Len(out) = Min(ret.arg[1], Cardinality(DOMAIN sessions))
           /\ \A i \in DOMAIN out :
                /\ ids[i] \in DOMAIN sessions
                /\ out[i] = session_info(sessions[ids[i]], now)
           /\ \A i, j \in DOMAIN out : i # j => ids[i] # ids[j]
           /\ \A i, j \in DOMAIN out :
                i < j => sessions[ids[i]].last_activity
                            >= sessions[ids[j]].last_activity
           /\ \A s \in DOMAIN sessions \ Range(ids) :
                \A i \in DOMAIN out :
                    sessions[s].last_activity <= sessions[ids[i]].last_activity

\* the same for the limits above 0
C21_PositiveLimits ==
    (ret.op = "list_sessions" /\ ret.arg[1] > 0) => C21_ListMostRecent

\* a session is expired when it was idle for longer than the session timeout
Expired(sd, t) == t - sd.last_activity > session_timeout

\* the number of messages the sessions of the store hold, from the number each
\* has received
HeldMessages ==
    SumOver([s \in SessionIds |->
                IF s \in DOMAIN sessions
                THEN Min(sent[s], max_messages_per_session) ELSE 0],
            SessionIds)

\* C22: in every reachable state get_memory_stats reports total_sessions = the
\* number of sessions in the store, total_messages = the sum of the message
\* counts of all sessions, active_sessions = the number of stored sessions
\* that are not expired, and max_messages_per_session = 5.
C22_StatsExact ==
    ret.op = "get_memory_stats" =>
        /\ ret.val # None
        /\ ret.val[1].total_sessions = Cardinality(DOMAIN sessions)
        /\ ret.val[1].total_messages = HeldMessages
        /\ ret.val[1].active_sessions =
              Cardinality({s \in DOMAIN sessions : ~Expired(sessions[s], now)})
        /\ ret.val[1].max_messages_per_session = 5

\* the same, with a session counted as active when it was idle for less than
\* the session timeout
C22_StatsWithinTimeout ==
    ret.op = "get_memory_stats" =>
        /\ ret.val # None
        /\ ret.val[1].total_sessions = Cardinality(DOMAIN sessions)
        /\ ret.val[1].total_messages = HeldMessages
        /\ ret.val[1].active_sessions =
              Cardinality({s \in DOMAIN sessions :
                              now - sessions[s].last_activity < session_timeout})
        /\ ret.val[1].max_messages_per_session = 5

\* a create_session step adds one session under a new id, with no message,
\* and changes no other session
C24_AddsEmptySession ==
    ret'.op = "create_session" =>
        LET id == ret'.val[1]
        IN /\ id \notin DOMAIN sessions
           /\ DOMAIN sessions' = DOMAIN sessions \cup {id}
           /\ sessions'[id].session_id = id
           /\ sessions'[id].messages = <<>>
           /\ \A s \in DOMAIN sessions : sessions'[s] = sessions[s]

\* C24: create_session puts a new session in the store with an empty message
\* list and created_at = last_activity = the time of the call, and changes no
\* session that was in the store.
C24_CreatedAtOnce ==
    [][/\ C24_AddsEmptySession
       /\ ret'.op = "create_session" =>
             /\ sessions'[ret'.val[1]].created_at = now
             /\ sessions'[ret'.val[1]].last_activity
                   = sessions'[ret'.val[1]].created_at]_vars

\* the same, with last_activity anywhere between the start and the end of the
\* call
C24_CreatedDuringCall ==
    [][/\ C24_AddsEmptySession
       /\ ret'.op = "create_session" =>
             /\ sessions'[ret'.val[1]].created_at = now
             /\ sessions'[ret'.val[1]].last_activity >= now
             /\ sessions'[ret'.val[1]].last_activity <= now']_vars

\* no message of a session is later than the session's last_activity
C25_NotBeforeNewest ==
    \A s \in DOMAIN sessions :
        \A i \in DOMAIN sessions[s].messages :
            sessions[s].messages[i].timestamp <= sessions[s].last_activity

\* the last_activity of a session does not decrease; an add_message that
\* returns True sets it to a time of the call, not earlier than the timestamp
\* of the message it appended; one that returns False changes nothing
C25_Step ==
    /\ \A s \in DOMAIN sessions \cap DOMAIN sessions' :
         sessions'[s].last_activity >= sessions[s].last_activity
    /\ ret'.op = "add_message" =>
         IF ret'.val = Some(TRUE)
         THEN LET sd == sessions'[ret'.sid]
                  newest == sd.messages[Len(sd.messages)]
              IN /\ newest.content = ret'.arg[1]
                 /\ now <= newest.timestamp
                 /\ newest.timestamp <= sd.last_activity
                 /\ sd.last_activity = now'
         ELSE sessions' = sessions

\* C25: every add_message that returns True sets the session's last_activity
\* to the time of that call, so last_activity never decreases and is never
\* earlier than the timestamp of the session's newest message; an add_message
\* that returns False refreshes nothing.
C25_AppendRefreshes == []C25_NotBeforeNewest /\ [][C25_Step]_vars

\* a session made on day 0 received its second message while the clock
\* advanced to its last day: the message is of the day before
C25_Witness ==
    /\ ret.op = "add_message" /\ ret.val = Some(TRUE)
    /\ ret.sid \in DOMAIN sessions
    /\ LET sd == sessions[ret.sid]
       IN /\ sd.created_at = 0
          /\ Len(sd.messages) = 2
          /\ sd.messages[1].timestamp = 0
          /\ sd.messages[2].timestamp = MaxTime - 1
          /\ sd.last_activity = MaxTime

\* what get_memory_stats, list_sessions and get_session_info report as active
\* is what Active(session_data) says of the sessions of the store
ReportsActive(Active(_)) ==
    /\ (ret.op = "get_memory_stats" /\ ret.val # None) =>
          ret.val[1].active_sessions =
              Cardinality({s \in DOMAIN sessions : Active(sessions[s])})
    /\ ret.op = "list_sessions" =>
          \A i \in DOMAIN ret.val :
              ret.val[i].is_active
                  <=> Active(sessions[ret.val[i].session_id])
    /\ (ret.op = "get_session_info" /\ ret.val # None) =>
          (ret.val[1].is_active <=> Active(sessions[ret.sid]))

\* idle for the session timeout or less; idle for less than the timeout
IdleUpToTimeout(sd) == now - sd.last_activity <= session_timeout
IdleBelowTimeout(sd) == now - sd.last_activity < session_timeout

\* C26: a stored session is reported active exactly when now - last_activity
\* <= session_timeout (24 hours): a session idle for exactly the timeout is
\* counted in active_sessions and listed as active, one idle longer is not.
C26_ActiveUpToTimeout == ReportsActive(IdleUpToTimeout)

\* the sessions reported active are those idle for less than the timeout
C26_ActiveBelowTimeout == ReportsActive(IdleBelowTimeout)

\* the ids that were given out and whose session has left the store
Deleted == {s \in Range(issued) : s \notin DOMAIN sessions}

\* a session leaves the store in delete_session or cleanup_old_sessions only
\* and never comes back; add_message on its id returns False,
\* get_session_history on it returns [], and create_session returns another id
C27_Step ==
    /\ \A s \in DOMAIN sessions \ DOMAIN sessions' :
         ret'.op \in {"delete_session", "cleanup_old_sessions"}
    /\ \A s \in Deleted :
         /\ s \notin DOMAIN sessions'
         /\ (ret'.op = "add_message" /\ ret'.sid = s) => ret'.val = Some(FALSE)
         /\ (ret'.op = "get_session_history" /\ ret'.sid = s) => ret'.val = <<>>
         /\ ret'.op = "create_session" => ret'.val # Some(s)

\* C27: once delete_session or cleanup_old_sessions has removed a session id,
\* every later add_message on that id returns False, every later
\* get_session_history on it returns the empty list, and no later
\* create_session returns that id.
C27_DeletedIsTerminal == [][C27_Step]_vars

\* the first session received messages and was removed, a second session was
\* made and holds messages, and an append to the first id was refused
C27_Witness ==
    /\ ret.op = "add_message" /\ ret.sid = 1 /\ ret.val = Some(FALSE)
    /\ issued = <<1, 2>>
    /\ Deleted = {1}
    /\ sent[1] > 0
    /\ Len(sessions[2].messages) > 0

-----------------------------------------------------------------------------
(* Properties of the score *)

\* two fractions are the same number
FracEq(a, b) == a[1] * b[2] = b[1] * a[2]

\* C28: the score retrieve_documents gives a hit is 1 for the distance 0 and
\* 1 / (1 + d) for a distance d > 0; for every distance of a hit the score
\* lies in [0, 1], and a hit at a larger distance never has a larger score.
C28_ScoreTransform ==
    (ret.op = "retrieve_documents" /\ ret.arg.embedded = "ok"
        /\ ret.arg.score_threshold = <<0, 1>>) =>
        LET hits == ret.arg.docs_with_scores
            out == ret.val.val
        IN /\ Len(out) = Len(hits)
           /\ \A i \in DOMAIN out :
                LET d == hits[i][2]
                    sc == out[i].score
                IN /\ sc[2] > 0
                   /\ d[1] = 0 => FracEq(sc, <<1, 1>>)
                   /\ d[1] > 0 => FracEq(sc, <<d[2], d[2] + d[1]>>)
                   /\ FracLeq(<<0, 1>>, sc) /\ FracLeq(sc, <<1, 1>>)
           /\ \A i, j \in DOMAIN out :
                FracLess(hits[i][2], hits[j][2])
                    => FracLeq(out[j].score, out[i].score)

\* three hits at a distance below 0, at 0 and at 3/2 got the scores 1, 1
\* and 2/5
C28_Witness ==
    /\ ret.op = "retrieve_documents" /\ ret.arg.embedded = "ok"
    /\ ret.arg.score_threshold = <<0, 1>>
    /\ Len(ret.arg.docs_with_scores) = 3
    /\ ret.arg.docs_with_scores[1][2] = <<-1, 2>>
    /\ ret.arg.docs_with_scores[2][2] = <<0, 2>>
    /\ ret.arg.docs_with_scores[3][2] = <<3, 2>>
    /\ Len(ret.val.val) = 3
    /\ ret.val.val[1].score = <<1, 1>>
    /\ ret.val.val[2].score = <<1, 1>>
    /\ ret.val.val[3].score = <<2, 5>>

-----------------------------------------------------------------------------
(* Properties of constructions at the same time *)

\* the construction of t is in _save_vector_store, past os.makedirs
InPersist(t) == pc[t] \in {"save_local", "writing"}

\* C29: two saves of the index never run at the same time, and a load that
\* runs while a save runs never finds the index files written in part: it
\* finds the complete index of before, no index, or the complete new index.
C29_PersistSerialized ==
    /\ \A t \in Threads : InPersist(t) => ~InPersist(Other(t))
    /\ \A t \in Threads : local[t].loaded.state # "partial"

\* self.vectorstore is None or a complete index: the one load_local read, or
\* the index of every chunk of the knowledge base; the instance the global
\* names has one, and a retrieval call searched it
C30_PublishedWhole ==
    /\ \A t \in Threads :
         /\ local[t].vectorstore # None =>
               local[t].vectorstore =
                   IF local[t].loaded.state = "complete"
                   THEN Some(local[t].loaded.chunks) ELSE Some(kb.chunks)
         /\ local[t].rag_service => local[t].vectorstore # None
    /\ ret.op = "retrieve_documents" =>
         ret.val # None /\ ret.val = local[ret.sid].vectorstore

\* an index that is in self.vectorstore is not changed while the instance
\* lives
C30_Step ==
    \A t \in Threads :
        (local[t].vectorstore # None /\ pc'[t] # "failed") =>
            local'[t].vectorstore = local[t].vectorstore

\* C30: at every moment the index a retrieval call can search is absent or
\* completely built, and no step of a build changes an index that is already
\* in self.vectorstore: a retrieval call never searches an index built in
\* part.
C30_NoPartialIndexVisible == []C30_PublishedWhole /\ [][C30_Step]_vars

\* a retrieval call searched the index of all chunks the first construction
\* built, while the second construction has embedded some of the chunks
C30_Witness ==
    /\ ret.op = "retrieve_documents" /\ ret.sid = 1
    /\ ret.val = Some(MaxChunks)
    /\ local[1].loaded = NotLoaded
    /\ pc[2] = "from_documents"
    /\ local[2].building > 0 /\ local[2].building < kb.chunks
    /\ local[2].vectorstore = None


-----------------------------------------------------------------------------
(* Properties of the chat route: order of reading and storing, faults, ids   *)

\* the request that starts in this step names a session the store holds
StartsOnKnown ==
    /\ req.pc = "idle" /\ req'.pc = "embedding"
    /\ req'.supplied # None
    /\ req'.supplied[1] \in DOMAIN sessions

\* the messages the store held for the session of the request in flight, as
\* role and content, the last five of them, oldest first
EarlierTurns(store, sid) ==
    LET old == store[sid].messages
        k == Min(5, Len(old))
    IN [i \in 1..k |-> [role |-> old[Len(old) - k + i].role,
                        content |-> old[Len(old) - k + i].content]]

\* the history is read when the request starts, from the session as it is
\* then; it is not read again; the request ends by appending the user turn
\* and then the reply to what the session held when the history was read
C31_Step ==
    /\ StartsOnKnown =>
          LET sid == req'.supplied[1]
          IN /\ req'.history = EarlierTurns(sessions, sid)
             /\ Len(req'.history) <= 5
             /\ \A i \in DOMAIN req'.history :
                   req'.history[i].content # req'.message
             /\ Len(format_chat_history(req'.history)) = Len(req'.history)
             /\ \A i \in DOMAIN req'.history :
                   format_chat_history(req'.history)[i][2]
                       = req'.history[i].content
             /\ sessions' = sessions /\ sent' = sent
    /\ (req.pc # "idle" /\ ~Finishes) =>
          req'.history = req.history /\ sessions' = sessions
    /\ (Finishes /\ req.session_id[1] \in DOMAIN sessions) =>
          LET sid == req.session_id[1]
              old == sessions[sid].messages
              m == sessions'[sid].messages
          IN /\ req.history = EarlierTurns(sessions, sid)
             /\ sent'[sid] = sent[sid] + 2
             /\ \E user, reply \in Range(m) :
                   /\ user.role = "user" /\ user.content = req.message
                   /\ reply.role = "assistant"
                   /\ reply.content = ret'.val.message
                   /\ user.timestamp <= reply.timestamp
                   /\ m = SliceLast(old \o <<user, reply>>,
                                    max_messages_per_session)

\* C31: within one chat request on a known session, the history given to the
\* generator is read before the current user turn is stored (it holds only
\* earlier turns, at most the last 5, oldest first), and afterwards exactly
\* two messages are appended to the session: the user turn and then the
\* generated reply, in that order.
C31_HistoryBeforeStore == [][C31_Step]_vars

\* the second request on session 1 was given the two turns of the first as
\* its history and has stored its own two turns after them
C31_Witness ==
    /\ ret.op = "chat_endpoint" /\ ret.val.status = 200
    /\ ret.arg.supplied = Some(1)
    /\ 1 \in DOMAIN sessions /\ sent[1] = 4
    /\ Len(sessions[1].messages) = 4
    /\ sessions[1].messages[3].role = "user"
    /\ sessions[1].messages[3].content = [to |-> 1, n |-> 3]
    /\ sessions[1].messages[4].role = "assistant"
    /\ sessions[1].messages[4].content = ret.val.message

\* the response to a request that ended in an exception
FaultAnswered == ret.op = "chat_endpoint" /\ ret.arg.fault.type # "none"

C32_GenericUnlessValueError ==
    (FaultAnswered /\ ret.arg.fault.type # "ValueError") =>
        ret.val.status = 500 /\ ret.val.error = RequestFailed

\* the request in flight supplied an id the store does not hold
OnUnknown(r, store) == r.supplied # None /\ r.supplied[1] \notin DOMAIN store

\* a request with an unknown id goes on with that id and an empty history,
\* and ends with a reply that carries the id; no step of it changes the store
C33_Step ==
    /\ (req.pc = "idle" /\ req'.pc = "embedding" /\ OnUnknown(req', sessions))
          => /\ req'.session_id = req'.supplied
             /\ req'.history = <<>>
             /\ sessions' = sessions /\ issued' = issued /\ sent' = sent
    /\ (Finishes /\ OnUnknown(req, sessions)) =>
          /\ sessions' = sessions /\ issued' = issued /\ sent' = sent
          /\ ret'.val.status = 200
          /\ ret'.val.session_id = req.supplied[1]
          /\ ret'.val.message \in {Apology, Reply(req.message, req.source_docs)}

\* C33: a chat request that supplies a session id unknown to the store
\* (never created, or already deleted or swept) creates no session and
\* stores neither the user turn nor the reply: the store is unchanged, yet
\* the request still succeeds and returns a reply carrying that same id.
C33_UnknownIdStoresNothing == [][C33_Step]_vars

\* a request that supplied id 2 was answered with id 2 while the store holds
\* session 1 with the two turns of an earlier request, and no session 2
C33_Witness ==
    /\ ret.op = "chat_endpoint" /\ ret.val.status = 200
    /\ ret.arg.supplied = Some(2) /\ ret.val.session_id = 2
    /\ ret.arg.generated = "ok"
    /\ DOMAIN sessions = {1}
    /\ Len(sessions[1].messages) = 2
    /\ sent[2] = 0

-----------------------------------------------------------------------------
(* Properties of the reads, of the singleton and of the timestamps *)

\* the operations that only read the store
ReadOps ==
    {"get_session_history", "get_session_info", "list_sessions",
     "get_memory_stats"}

\* the step is a call of a read operation (or leaves its result in place)
C34_Step ==
    ret'.op \in ReadOps =>
        /\ sessions' = sessions
        /\ issued' = issued
        /\ sent' = sent

\* C34: the read operations history, listSessions, get_session_info and
\* stats leave the store unchanged: they create, remove and modify no
\* session, drop no message, and never refresh a session's lastActivity.
C34_ReadsChangeNothing == [][C34_Step]_vars

\* the history of a session was read after the session had been idle for a
\* day, and the session still shows the older last activity
C34_Witness ==
    /\ ret.op = "get_session_history"
    /\ ret.val # <<>>
    /\ ret.sid \in DOMAIN sessions
    /\ sessions[ret.sid].last_activity < now

\* message i of the list is a user turn that has its reply right behind it
\* (the last message can be a user turn whose request is still under way)
OwnReplyFollows(m, i) ==
    m[i].role = "user" =>
        \/ i = Len(m) /\ \E t \in Threads : pc[t] = "stored_user"
                                            /\ local[t].message = m[i].content
        \/ /\ i < Len(m)
           /\ m[i + 1].role = "assistant"
           /\ \/ m[i + 1].content = Apology
              \/ m[i + 1].content.reply_to = m[i].content

\* C35: in every session written only by chat requests, the stored messages
\* alternate user, assistant, and each request's user turn is immediately
\* followed by that same request's reply, also when two chat requests on the
\* same session id are processed concurrently.
C35_TurnsAlternate ==
    \A s \in DOMAIN sessions :
        LET m == sessions[s].messages
        IN /\ \A i \in 1..(Len(m) - 1) : m[i].role # m[i + 1].role
           /\ \A i \in DOMAIN m : OwnReplyFollows(m, i)

\* the request of client 2 on session 1 returned; it was received while the
\* handler of client 1 was between its two writes to the same session, which
\* now holds the turns of both requests
C35_Witness ==
    /\ ret.op = "chat_endpoint" /\ ret.arg.by = 2
    /\ ret.arg.supplied = Some(1)
    /\ ret.arg.during = "stored_user"
    /\ 1 \in DOMAIN sessions
    /\ Len(sessions[1].messages) = 4
    /\ sessions[1].messages[1].content.by = 1
    /\ sessions[1].messages[3].content.by = 2

\* the calls that have returned all returned one instance
OneInstanceReturned ==
    \A t, u \in Threads :
        (local[t].returned # None /\ local[u].returned # None)
            => local[t].returned = local[u].returned

\* every session a request created is in the instance the global names
NoSessionLost ==
    GlobalStore(local) # None =>
        \A s \in Range(issued) :
            s \in DOMAIN local[GlobalStore(local)[1]].sessions[1]

\* C36: every call to get_chat_history_service returns the same store
\* instance, also when the first calls race in different threads, so a
\* session created through one call is visible to every later request and no
\* created session is lost to a second store instance.
C36_OneStore == OneInstanceReturned /\ NoSessionLost

\* what does hold: while only one thread has found the global unset, every
\* call returns the one instance and it holds every session created
C36_OneStoreUnlessRaced ==
    (\E t \in Threads : local[t].sessions = None) => C36_OneStore

\* C37: in every session, after any sequence and interleaving of operations,
\* createdAt <= the timestamp of every stored message <= lastActivity, and
\* message timestamps are non-decreasing in list order (given a
\* non-decreasing clock).
C37_TimestampsOrdered ==
    \A s \in DOMAIN sessions :
        LET sd == sessions[s]
            m == sd.messages
        IN /\ sd.created_at <= sd.last_activity
           /\ \A i \in DOMAIN m :
                 sd.created_at <= m[i].timestamp
                     /\ m[i].timestamp <= sd.last_activity
           /\ \A i, j \in DOMAIN m :
                 i < j => m[i].timestamp <= m[j].timestamp

\* a session created on one day got a message on the next day and another on
\* the day after, while a message was also stored in another session
C37_Witness ==
    \E s \in DOMAIN sessions :
        LET sd == sessions[s]
            m == sd.messages
        IN /\ Len(m) >= 2
           /\ sd.created_at < m[1].timestamp
           /\ m[1].timestamp < m[Len(m)].timestamp
           /\ \E o \in DOMAIN sessions \ {s} : sessions[o].messages # <<>>

====
